---- MODULE Spec2Model ----
(***************************************************************************)
(* Switch-to-servo control for the Pi Pico.                                *)
(*                                                                         *)
(* Spec / LiveSpec: the uasyncio producer/consumer handshake               *)
(* (switches_as.py, main_01.py) with the servo driver servos_as_p.py, the  *)
(* driver's own test program, and the synchronous polling loop main_00.py  *)
(* with servos.py.  A run is one of these programs (variable prog).        *)
(*                                                                         *)
(* CfgSpec: the same programs started with other user parameters (a        *)
(* position beyond the range, a position at the limit).                    *)
(*                                                                         *)
(* HwSpec / HwLiveSpec: main_01.py with the producer of switches_as_p.py   *)
(* (HwSwitchGroup), which delivers every scan.                             *)
(*                                                                         *)
(* AsSpec / AsLiveSpec: the event-driven main loop of as_sw_servos.py and  *)
(* as_http_servos.py with as_servo.py and the switch sources of            *)
(* as_sw_input.py (polled hardware switches, HTTP requests).               *)
(*                                                                         *)
(* NsSpec / NsLiveSpec: one servo of servos_as_ns.py driven through        *)
(* move_linear and move_coords, for every motion profile.  NsUserSpec: the *)
(* same with a profile table added by the user.                            *)
(*                                                                         *)
(* HttpSpec: request handling of http_as.HttpServer and of                 *)
(* as_sw_input.HttpSwitches, one request line at a time.                   *)
(*                                                                         *)
(* Scheduling model: uasyncio runs one task at a time; a task runs from    *)
(* one suspension point (await) to the next, which is one action here.     *)
(* The task queue is ordered by due time: a task woken by Event.set() or   *)
(* created by create_task()/gather() is due at once, a task in             *)
(* sleep_ms(t) is due t ms later.  Timers count the ms left; time advances *)
(* only when no task is due, and tasks due at the same time run in any     *)
(* order.  In the synchronous program every sleep_ms is one step.          *)
(***************************************************************************)
EXTENDS Integers, Sequences, FiniteSets, TLC

\* ---------------------------------------------------------------- bounds
\* number of times the physical switches are moved during a run
MaxChanges == 3

\* number of HTTP requests served during a run
MaxRequests == 2

\* largest error, in hundredths, of the floating-point sum of 100 steps
\* that are rounded to two decimals
FloatErr == 3

\* largest deviation, in ns, of a floating-point pulse-width sum from its
\* exact value (MicroPython floats have 24 bits of precision)
NsErr == 1

\* ------------------------------------------------------- program constants
None == -1              \* stands for Python's None (state, pw, duty, results)
OFF == 0
ON == 1
PW_MIN == 500000
PW_MAX == 2500000
DEGREES_MIN == 0
DEGREES_MAX == 180
NS_PER_DEGREE == (PW_MAX - PW_MIN) \div (DEGREES_MAX - DEGREES_MIN)
SET_SLEEP == 500
x_inc == 1
x_steps == 100 \div x_inc
X_END == 100            \* while x < 100
poll_interval == 200
HW_ON == 0              \* HwSwitch._ON  (pull-up logic)
HW_OFF == 1             \* HwSwitch._OFF
BAD_DEMAND == 2         \* a demand that is neither OFF nor ON

\* user parameters (main_01.main / servos_as_p.main / main_00.main), first
\* two switches; the third tuple element is int(rotation_time * 1000)
Switches == {16, 17}
Servos == {0, 1, 2}
servo_params == (0 :> <<70, 110, 1000>>) @@ (1 :> <<110, 70, 1000>>)
                @@ (2 :> <<45, 135, 2000>>)
switch_servos == (16 :> {0, 1}) @@ (17 :> {2})

\* the programs of the repository that are modelled; a run is one of them
Programs == {"main_01", "servos_as_p", "main_00"}

VARIABLES
    prog,            \* which program is running
    pin_value,       \* electrical level of each switch pin (environment)
    changes,         \* how often the environment has moved a switch
    requests,        \* how many HTTP requests have been served
    request_line,    \* serve_client: the request served last
    switch_states,   \* SwitchGroup._switch_states / main_00 switch_states
    previous_states, \* SwitchGroup._previous_states / main_00 prev_states
    ev_input,        \* SwitchGroup.ev_input  (Event state)
    ev_consumer_ready, \* SwitchGroup.ev_consumer_ready (Event state)
    ppc, ptimer,     \* main task (main / poll_switches): position, ms left
    cpc,             \* consumer task (switch_to_servo): position
    servo_settings,  \* the demand dictionary handed to ServoGroup.update
    servos,          \* ServoGroup.servos: servo -> ServoSG90 fields
    task,            \* the coroutine running on each servo (gather children)
    result,          \* ServoGroup.update: result of the latest gather
    read_states,     \* history: the snapshot read in the latest consume cycle
    last_scan,       \* history: the pin states at the latest scan
    burst,           \* history: input changes during the consumer's busy phase
    repeat,          \* history: update was called with the previous demand
    applied          \* history: the switch states made by the requests that
                     \* were applied completely

env == <<pin_value, changes, requests, request_line>>
swvars == <<switch_states, previous_states, ev_input, ev_consumer_ready>>
srv == <<servos, task, result>>
hist == <<read_states, last_scan, burst, repeat, applied>>
vars == <<prog, env, swvars, ppc, ptimer, cpc, servo_settings, srv, hist>>

\* no request has been served yet
NoRequest == [path |-> "none", query |-> FALSE, params |-> << >>]

\* ------------------------------------------------------------- ServoSG90
Max(a, b) == IF a > b THEN a ELSE b
Min(a, b) == IF a < b THEN a ELSE b

degrees_to_ns(degrees) == PW_MIN + degrees * NS_PER_DEGREE

pw_in_range(pw_) == Min(Max(pw_, PW_MIN), PW_MAX)

\* ServoSG90.__init__ with the parameters (off_deg, on_deg,
\* int(rotation_time * 1000)); writes counts the duty_ns() calls of the
\* current group operation (initialise / update)
ServoWith(params) ==
    [off_deg |-> params[1], on_deg |-> params[2],
     off_ns |-> pw_in_range(degrees_to_ns(params[1])),
     on_ns |-> pw_in_range(degrees_to_ns(params[2])),
     rotation_ms |-> params[3],
     state |-> None, pw |-> None, duty |-> None, writes |-> 0]

\* ServoSG90(pin, *servo_parameters[pin])
ServoSG90(pin) == ServoWith(servo_params[pin])

duty_ns(sv, v) == [sv EXCEPT !.duty = v, !.writes = @ + 1]

move_servo(sv, pw_) ==
    IF pw_ < PW_MIN \/ pw_ > PW_MAX THEN sv ELSE duty_ns(sv, pw_)

activate_pulse(sv) == move_servo(sv, sv.pw)

\* fault injection: the PWM output is left as it is
keep_pulse(sv) == sv

zero_pulse(sv) == duty_ns(sv, 0)

end_pw(sv, demand_state) == IF demand_state = ON THEN sv.on_ns ELSE sv.off_ns

step_pause_ms(sv) == sv.rotation_ms \div x_steps

\* one pass of the loop body: self.pw += pw_inc; self.move_servo(self.pw)
loop_step(sv, pw_inc) ==
    LET p == sv.pw + pw_inc IN move_servo([sv EXCEPT !.pw = p], p)

\* fault injection: set_on / set_off keep the target without writing it
set_pw_only(sv, demand_state) == [sv EXCEPT !.pw = end_pw(sv, demand_state)]

\* set_on / set_off up to the sleep: self.pw = ..._ns; move_servo(self.pw)
set_position(sv, demand_state) ==
    LET p == end_pw(sv, demand_state) IN move_servo([sv EXCEPT !.pw = p], p)


\* fault injection: the comparison with the committed state is left out
never_same(sv, demand_state) == FALSE

\* "if demand_state == self.state: return"
same_state(sv, demand_state) == demand_state = sv.state

\* fault injection: only the comparison with the committed state is made
same_only(sv, demand_state) == same_state(sv, demand_state)

\* the two early returns of move_linear
no_move(sv, demand_state) ==
    same_state(sv, demand_state) \/ demand_state \notin {ON, OFF}

\* pw_inc = (end_pw - self.pw) // self.x_steps
pw_increment(sv, demand_state) ==
    (end_pw(sv, demand_state) - sv.pw) \div x_steps

\* servos.py ServoGroup.__init__ -> initialise: set_off, sleep, zero_pulse
initialised(sv) == zero_pulse([set_position(sv, OFF) EXCEPT !.state = OFF])

initialised_sync(pin) == initialised(ServoSG90(pin))

\* ---------------------------------------------------------- servo tasks
IdleTask == [pc |-> "idle", timer |-> 0, op |-> "none", demand_state |-> None,
             x |-> 0, pw |-> 0, pw_inc |-> 0, ret |-> None, ret_pin |-> None]

NewTask(op, d) == [IdleTask EXCEPT !.pc = "launched", !.op = op,
                                   !.demand_state = d]

NoTasks == [s \in Servos |-> IdleTask]

AllDone == /\ \E s \in Servos : task[s].pc = "done"
           /\ \A s \in Servos : task[s].pc \in {"idle", "done"}

\* fault injection: the gather returns with its first finished task
any_done == \E s \in Servos : task[s].pc = "done"

\* "await asyncio.gather(*tasks)" returns
gather_done == AllDone

TaskDue(s) == \/ task[s].pc = "launched"
              \/ task[s].pc \in {"step", "set_sleep"} /\ task[s].timer = 0

\* set_off() as launched by ServoGroup.initialise, up to its sleep
SetOffStart(s) ==
    /\ task[s].pc = "launched" /\ task[s].op = "set_off"
    /\ servos' = [servos EXCEPT ![s] = set_position(@, OFF)]
    /\ task' = [task EXCEPT ![s].pc = "set_sleep", ![s].timer = SET_SLEEP]
    /\ UNCHANGED <<prog, env, swvars, ppc, ptimer, cpc, servo_settings,
                   result, hist>>

\* move_linear() from its call to its first suspension (or early return)
MoveStart(s) ==
    /\ task[s].pc = "launched" /\ task[s].op = "move_linear"
    /\ LET sv == servos[s]
           d == task[s].demand_state
       IN IF no_move(sv, d)
          THEN /\ task' = [task EXCEPT ![s].pc = "done", ![s].ret = None]
               /\ UNCHANGED servos
          ELSE LET inc == pw_increment(sv, d)
               IN /\ servos' = [servos EXCEPT
                                 ![s] = loop_step(activate_pulse(sv), inc)]
                  /\ task' = [task EXCEPT ![s].pc = "step",
                                          ![s].timer = step_pause_ms(sv),
                                          ![s].x = x_inc,
                                          ![s].pw_inc = inc]
    /\ UNCHANGED <<prog, env, swvars, ppc, ptimer, cpc, servo_settings,
                   result, hist>>

\* move_linear() resumed after a step pause: next step, or set_demand()
MoveStep(s) ==
    /\ task[s].pc = "step" /\ task[s].timer = 0
    /\ IF task[s].x < X_END
       THEN /\ servos' = [servos EXCEPT ![s] = loop_step(@, task[s].pw_inc)]
            /\ task' = [task EXCEPT ![s].x = @ + x_inc,
                                    ![s].timer = step_pause_ms(servos[s])]
       ELSE /\ servos' = [servos EXCEPT
                           ![s] = set_position(@, task[s].demand_state)]
            /\ task' = [task EXCEPT ![s].pc = "set_sleep",
                                    ![s].timer = SET_SLEEP]
    /\ UNCHANGED <<prog, env, swvars, ppc, ptimer, cpc, servo_settings,
                   result, hist>>

\* set_on()/set_off() resumed after SET_SLEEP: commit the state; inside
\* move_linear also zero_pulse() and return self.state
SetCommit(s) ==
    /\ task[s].pc = "set_sleep" /\ task[s].timer = 0
    /\ LET d == IF task[s].op = "set_off" THEN OFF ELSE task[s].demand_state
           sv == [servos[s] EXCEPT !.state = d]
       IN IF task[s].op = "move_linear"
          THEN /\ servos' = [servos EXCEPT ![s] = zero_pulse(sv)]
               /\ task' = [task EXCEPT ![s].pc = "done", ![s].ret = sv.state]
          ELSE /\ servos' = [servos EXCEPT ![s] = sv]
               /\ task' = [task EXCEPT ![s].pc = "done"]
    /\ UNCHANGED <<prog, env, swvars, ppc, ptimer, cpc, servo_settings,
                   result, hist>>

\* ------------------------------------------------------------ ServoGroup
\* fault injection: initialise sets only the first servo of the group
initialise_first ==
    [s \in Servos |-> IF s = 0 THEN NewTask("set_off", None) ELSE IdleTask]

\* ServoGroup.initialise up to its gather
initialise_launch == [s \in Servos |-> NewTask("set_off", None)]

\* ServoGroup.initialise after its gather: zero_pulse on every servo
initialise_finish == [s \in Servos |-> zero_pulse(servos[s])]

\* fault injection: a move is launched on every servo of the group
launch_all(demand) ==
    [s \in Servos |-> NewTask("move_linear",
                              IF s \in DOMAIN demand THEN demand[s] ELSE ON)]

\* ServoGroup.update up to its gather: one move_linear per demand entry
update_launch(demand) ==
    [s \in Servos |-> IF s \in DOMAIN demand
                      THEN NewTask("move_linear", demand[s])
                      ELSE IdleTask]

\* the write counters start again with each group operation
ClearWrites(svs) == [s \in Servos |-> [svs[s] EXCEPT !.writes = 0]]

\* no gather has returned yet
NoResult == [s \in {} |-> None]

GatherResult == [s \in {t \in Servos : task[t].pc = "done"} |-> task[s].ret]

\* servos.py ServoGroup.update: "for srv_id in demand: move_linear(...)",
\* the calls still to make
update_calls(demand) ==
    [s \in Servos |-> IF s \in DOMAIN demand
                      THEN [IdleTask EXCEPT !.pc = "queued",
                                            !.op = "sync_move",
                                            !.demand_state = demand[s]]
                      ELSE IdleTask]

\* the call the running update makes next (dictionary order)
NextCall(s) ==
    /\ task[s].pc = "queued"
    /\ \A r \in Servos : task[r].pc \in {"idle", "done"} \/ r >= s
    /\ \A r \in Servos : task[r].pc \in {"idle", "done", "queued"}

\* servos.py move_linear() from its call to its first sleep_ms (or return)
SyncMoveStart(s) ==
    /\ prog = "main_00" /\ NextCall(s)
    /\ LET sv == servos[s]
           d == task[s].demand_state
       IN IF no_move(sv, d)
          THEN /\ task' = [task EXCEPT ![s].pc = "done", ![s].ret = None]
               /\ UNCHANGED servos
          ELSE LET inc == pw_increment(sv, d)
               IN /\ servos' = [servos EXCEPT
                                 ![s] = loop_step(activate_pulse(sv), inc)]
                  /\ task' = [task EXCEPT ![s].pc = "sync_step",
                                          ![s].x = x_inc,
                                          ![s].pw_inc = inc]
    /\ UNCHANGED <<prog, env, swvars, ppc, ptimer, cpc, servo_settings,
                   result, hist>>

\* after sleep_ms(step_pause_ms): the next step, or set_demand() (which
\* sets position and state at once) and sleep_ms(MIN_SLEEP)
SyncMoveStep(s) ==
    /\ prog = "main_00" /\ task[s].pc = "sync_step"
    /\ IF task[s].x < X_END
       THEN /\ servos' = [servos EXCEPT ![s] = loop_step(@, task[s].pw_inc)]
            /\ task' = [task EXCEPT ![s].x = @ + x_inc]
       ELSE /\ servos' = [servos EXCEPT
                           ![s] = [set_position(@, task[s].demand_state)
                                     EXCEPT !.state = task[s].demand_state]]
            /\ task' = [task EXCEPT ![s].pc = "sync_settle"]
    /\ UNCHANGED <<prog, env, swvars, ppc, ptimer, cpc, servo_settings,
                   result, hist>>

\* after sleep_ms(MIN_SLEEP): zero_pulse(); return self.state
SyncMoveEnd(s) ==
    /\ prog = "main_00" /\ task[s].pc = "sync_settle"
    /\ servos' = [servos EXCEPT ![s] = zero_pulse(@)]
    /\ task' = [task EXCEPT ![s].pc = "done", ![s].ret = servos[s].state]
    /\ UNCHANGED <<prog, env, swvars, ppc, ptimer, cpc, servo_settings,
                   result, hist>>

\* ------------------------------------------------------------ SwitchGroup
NoStates == [p \in Switches |-> None]     \* _switch_states = None

HwSwitch_state(p) == IF pin_value[p] = HW_ON THEN 1 ELSE 0

\* {pin: self.switches[pin].state for pin in self.switches}
scan_switches == [p \in DOMAIN pin_value |-> HwSwitch_state(p)]

\* fault injection: every scan is reported as a change
always_changed(scanned, prev) == TRUE

\* "if self._switch_states != self._previous_states"
states_changed(scanned, prev) == scanned # prev

\* fault injection: the producer does not wait for the consumer
never_wait == TRUE

\* fault injection: wait() suspends the producer even if the event is set
always_wait == FALSE

\* "await self.ev_consumer_ready.wait()" goes on without suspending
wait_ready == ev_consumer_ready

\* fault injection: the pins as they are now are booked as delivered
delivered_fresh(states) == scan_switches

\* fault injection: nothing is ever booked as delivered
delivered_never(states) == previous_states

\* "self._previous_states = self._switch_states"
delivered(states) == states

\* poll_switches, from the scan to the sleep:
\*   self._switch_states = {...}; if != _previous_states: ev_input.set()
\* (set() makes a consumer that waits on ev_input due)
PollScan(prev, consumer) ==
    LET scanned == scan_switches
        changed == states_changed(scanned, prev)
    IN /\ switch_states' = scanned
       /\ last_scan' = scan_switches
       /\ previous_states' = prev
       /\ ev_input' = (changed \/ ev_input)
       /\ cpc' = IF changed /\ consumer = "wait_data" THEN "woken"
                 ELSE consumer
       /\ ppc' = "sleep"
       /\ ptimer' = poll_interval

\* ------------------------------------------------- consumer: switch_to_servo
\* fault injection: every servo takes the state of one and the same switch
any_switch(s) == CHOOSE p \in Switches : TRUE

SwitchOf(s) == CHOOSE p \in Switches :
                  /\ s \in switch_servos[p]
                  /\ \A q \in Switches : s \in switch_servos[q] => q <= p

Routed == UNION {switch_servos[p] : p \in Switches}

\* servo_settings[servo_pin] = states[switch_pin] over the routing table
Demand(states) ==
    [s \in UNION {switch_servos[p] : p \in DOMAIN states} |->
        states[SwitchOf(s)]]

NoBurst == [n |-> 0, open |-> FALSE, final |-> NoStates, prev |-> NoStates,
            cycles |-> 0]

\* history: the consumer becomes ready after a busy phase with b.n changes
BurstOnReady(b) ==
    IF b.open THEN b
    ELSE IF b.n >= 2
         THEN [b EXCEPT !.open = TRUE, !.final = scan_switches,
                        !.prev = read_states, !.cycles = 0]
         ELSE NoBurst

\* history: the consumer starts a cycle
BurstOnCycle(b) ==
    IF b.open THEN [b EXCEPT !.cycles = Min(@ + 1, 2)] ELSE NoBurst

\* history: the input changes
BurstOnChange(b) ==
    IF cpc = "gather"
    THEN [NoBurst EXCEPT !.n = IF b.open THEN 1 ELSE Min(b.n + 1, 3)]
    ELSE NoBurst

\* from "ev_input.clear()" to the gather inside ServoGroup.update
ConsumeCycle(b) ==
    /\ ev_input' = FALSE
    /\ ev_consumer_ready' = FALSE
    /\ servo_settings' = Demand(switch_states)
    /\ servos' = ClearWrites(servos)
    /\ task' = update_launch(Demand(switch_states))
    /\ cpc' = "gather"
    /\ read_states' = switch_states
    /\ burst' = BurstOnCycle(b)

\* top of the loop: ev_consumer_ready.set(); await ev_input.wait()
\* (Event.wait() returns without suspending when the event is set)
ConsumerLoopTop ==
    /\ ppc' = IF ppc = "wait_ready" THEN "woken" ELSE ppc
    /\ IF ev_input
       THEN ConsumeCycle(BurstOnReady(burst))
       ELSE /\ ev_consumer_ready' = TRUE
            /\ cpc' = "wait_data"
            /\ task' = NoTasks
            /\ burst' = BurstOnReady(burst)
            /\ UNCHANGED <<ev_input, servo_settings, servos, read_states>>

\* the consumer task runs for the first time
ConsumerStart ==
    /\ prog \in {"main_01", "main_01_p"} /\ cpc = "start"
    /\ ConsumerLoopTop
    /\ result' = NoResult
    /\ UNCHANGED <<prog, env, switch_states, previous_states, ptimer,
                   last_scan, repeat, applied>>

\* ServoGroup.update returns (gather complete), loop back to the top
UpdateReturn ==
    /\ prog \in {"main_01", "main_01_p"} /\ cpc = "gather" /\ gather_done
    /\ result' = IF ev_input THEN NoResult ELSE GatherResult
    /\ ConsumerLoopTop
    /\ UNCHANGED <<prog, env, switch_states, previous_states, ptimer,
                   last_scan, repeat, applied>>

\* resumed by ev_input.set()
ConsumerWake ==
    /\ prog \in {"main_01", "main_01_p"} /\ cpc = "woken"
    /\ ConsumeCycle(burst)
    /\ result' = NoResult
    /\ UNCHANGED <<prog, env, switch_states, previous_states, ppc, ptimer,
                   last_scan, repeat, applied>>

\* ------------------------------------------ main_01.main, servos_as_p.main
\* await servo_group.initialise(): launch the set_off tasks
Initialise ==
    /\ prog \in {"main_01", "main_01_p", "servos_as_p"}
    /\ ppc = "initialise"
    /\ task' = initialise_launch
    /\ ppc' = "init_gather"
    /\ UNCHANGED <<prog, env, swvars, ptimer, cpc, servo_settings, servos,
                   result, hist>>

\* initialise returns; create_task(switch_to_servo(...)); first pass of
\* poll_switches up to its sleep
MainStart ==
    /\ prog = "main_01" /\ ppc = "init_gather" /\ gather_done
    /\ servos' = initialise_finish
    /\ task' = NoTasks
    /\ PollScan(previous_states, "start")
    /\ UNCHANGED <<prog, env, ev_consumer_ready, servo_settings, result,
                   read_states, burst, repeat, applied>>

\* poll_switches after sleep_ms: await ev_consumer_ready.wait(), then
\* _previous_states = _switch_states and the next pass
PollWake ==
    /\ prog = "main_01" /\ ppc = "sleep" /\ ptimer = 0
    /\ IF wait_ready
       THEN PollScan(delivered(switch_states), cpc)
       ELSE /\ ppc' = "wait_ready"
            /\ UNCHANGED <<switch_states, previous_states, ev_input, cpc,
                           ptimer, last_scan>>
    /\ UNCHANGED <<prog, env, ev_consumer_ready, servo_settings, srv,
                   read_states, burst, repeat, applied>>

\* poll_switches resumed by ev_consumer_ready.set()
PollResume ==
    /\ prog = "main_01" /\ ppc = "woken"
    /\ PollScan(delivered(switch_states), cpc)
    /\ UNCHANGED <<prog, env, ev_consumer_ready, servo_settings, srv,
                   read_states, burst, repeat, applied>>

\* -------------------------------------------- servos_as_p.test_servos
\* the demand dictionaries a caller can hand to update()
DemandValues == {OFF, ON, BAD_DEMAND}

\* test_sw_states: switch states standing for changing switch input
test_sw_states ==
    UNION {[D -> DemandValues] : D \in (SUBSET Switches) \ {{}}}

\* initialise (or the previous update) returns; the next
\* "await servo_group_.update(servo_settings)" up to its gather
TestUpdate ==
    /\ prog = "servos_as_p" /\ ppc \in {"init_gather", "gather"}
    /\ gather_done
    /\ \E test_state \in test_sw_states :
          LET d == Demand(test_state)
          IN /\ servo_settings' = d
             /\ task' = update_launch(d)
             /\ repeat' = (ppc = "gather" /\ d = servo_settings)
    /\ servos' = ClearWrites(IF ppc = "init_gather" THEN initialise_finish
                             ELSE servos)
    /\ result' = NoResult
    /\ ppc' = "gather"
    /\ UNCHANGED <<prog, env, swvars, ptimer, cpc, read_states, last_scan,
                   burst, applied>>

\* ------------------------------------------------ main_00.control_servos
\* "if switch_states != prev_states"
states_differ(states, prev) == states # prev

\* a polling round: read the switches; on a change build the demand and
\* call servo_group.update(servo_settings)
ControlPoll ==
    /\ prog = "main_00" /\ ppc = "poll"
    /\ switch_states' = scan_switches
    /\ IF states_differ(scan_switches, previous_states)
       THEN /\ servo_settings' = Demand(scan_switches)
            /\ servos' = ClearWrites(servos)
            /\ task' = update_calls(Demand(scan_switches))
            /\ ppc' = "update"
       ELSE /\ ppc' = "sleep_ms"
            /\ UNCHANGED <<servo_settings, servos, task>>
    /\ last_scan' = scan_switches
    /\ UNCHANGED <<prog, env, previous_states, ev_input, ev_consumer_ready,
                   ptimer, cpc, result, read_states, burst, repeat, applied>>

\* update() returns; sleep_ms(polling_interval)
ControlUpdated ==
    /\ prog = "main_00" /\ ppc = "update" /\ AllDone
    /\ result' = GatherResult
    /\ task' = NoTasks
    /\ ppc' = "sleep_ms"
    /\ UNCHANGED <<prog, env, swvars, ptimer, cpc, servo_settings, servos,
                   hist>>

\* after the sleep: prev_states = switch_states
ControlSleep ==
    /\ prog = "main_00" /\ ppc = "sleep_ms"
    /\ previous_states' = switch_states
    /\ ppc' = "poll"
    /\ UNCHANGED <<prog, env, switch_states, ev_input, ev_consumer_ready,
                   ptimer, cpc, servo_settings, srv, hist>>

\* ----------------------------------------------------------- scheduler
Due ==
    \/ prog = "main_00"
    \/ ppc \in {"initialise", "woken"}
    \/ ppc = "sleep" /\ ptimer = 0
    \/ ppc \in {"init_gather", "gather"} /\ gather_done
    \/ cpc \in {"start", "woken", "as_start", "as_woken"}
    \/ cpc \in {"gather", "as_gather"} /\ gather_done
    \/ \E s \in Servos : TaskDue(s)

Sleeping(s) == task[s].pc \in {"step", "set_sleep"}

Timers == {task[s].timer : s \in {t \in Servos : Sleeping(t)}}
          \cup (IF ppc = "sleep" THEN {ptimer} ELSE {})

MinOf(S) == CHOOSE m \in S : \A n \in S : m <= n

\* no task is due: the scheduler waits for the earliest timer
Advance ==
    /\ ~Due
    /\ Timers # {}
    /\ LET dt == MinOf(Timers)
       IN /\ ptimer' = IF ppc = "sleep" THEN ptimer - dt ELSE ptimer
          /\ task' = [s \in Servos |->
                        IF Sleeping(s)
                        THEN [task[s] EXCEPT !.timer = @ - dt]
                        ELSE task[s]]
    /\ UNCHANGED <<prog, env, swvars, ppc, cpc, servo_settings, servos,
                   result, hist>>

\* --------------------------------------------------------- environment
\* somebody moves one or more switches; a task's run between two
\* suspension points takes no time, so the switches move while the
\* scheduler waits (main_01) or the program sleeps (main_00)
HwChange ==
    /\ changes < MaxChanges
    /\ \/ prog = "main_00"
       \/ prog \in {"main_01", "main_01_p", "as_sw_servos"} /\ ~Due
    /\ \E v \in [DOMAIN pin_value -> {HW_ON, HW_OFF}] :
          /\ v # pin_value
          /\ pin_value' = v
    /\ changes' = changes + 1
    /\ UNCHANGED <<requests, request_line>>
    /\ burst' = IF prog = "main_01" THEN BurstOnChange(burst) ELSE burst
    /\ UNCHANGED <<prog, swvars, ppc, ptimer, cpc, servo_settings, srv,
                   read_states, last_scan, repeat, applied>>

\* -------------------------------------------------------------------
\* main_01 with the producer of switches_as_p.py (program "main_01_p"):
\* HwSwitchGroup.poll_switches sleeps, scans, waits for the consumer and
\* sets ev_input, whether the scan differs from the one before or not
\* -------------------------------------------------------------------
\* fault injection: the event is set for the first scan only
raise_once == read_states = NoStates

\* fault injection: the event is set only if the switches do not show
\* what the consumer read last
raise_changed == scan_switches # read_states

\* "self.ev_input.set()"
raise_input == TRUE

\* HwSwitchGroup.poll_switches from "self.ev_input.set()" to the sleep at
\* the top of the loop (set() makes a consumer that waits on ev_input due)
HwRaise ==
    /\ ev_input' = (ev_input \/ raise_input)
    /\ cpc' = IF raise_input /\ cpc = "wait_data" THEN "woken" ELSE cpc
    /\ ppc' = "sleep"
    /\ ptimer' = poll_interval

\* initialise returns; create_task(switch_to_servo(...)); poll_switches up
\* to its first sleep
HwMainStart ==
    /\ prog = "main_01_p" /\ ppc = "init_gather" /\ gather_done
    /\ servos' = initialise_finish
    /\ task' = NoTasks
    /\ cpc' = "start"
    /\ ppc' = "sleep"
    /\ ptimer' = poll_interval
    /\ UNCHANGED <<prog, env, swvars, servo_settings, result, hist>>

\* poll_switches after sleep_ms: the scan, then
\* "await self.ev_consumer_ready.wait()" and, if that does not suspend,
\* ev_input.set()
HwPollWake ==
    /\ prog = "main_01_p" /\ ppc = "sleep" /\ ptimer = 0
    /\ switch_states' = scan_switches
    /\ last_scan' = scan_switches
    /\ IF wait_ready
       THEN HwRaise
       ELSE /\ ppc' = "wait_ready"
            /\ UNCHANGED <<ev_input, cpc, ptimer>>
    /\ UNCHANGED <<prog, env, previous_states, ev_consumer_ready,
                   servo_settings, srv, read_states, burst, repeat, applied>>

\* poll_switches resumed by ev_consumer_ready.set(): ev_input.set()
HwPollResume ==
    /\ prog = "main_01_p" /\ ppc = "woken"
    /\ HwRaise
    /\ UNCHANGED <<prog, env, switch_states, previous_states,
                   ev_consumer_ready, servo_settings, srv, hist>>

\* main_01.main starts with HwSwitchGroup and ServoGroup constructed
HwInit ==
    /\ prog = "main_01_p"
    /\ pin_value \in [Switches -> {HW_ON, HW_OFF}]
    /\ changes = 0
    /\ requests = 0
    /\ request_line = NoRequest
    /\ switch_states = NoStates
    /\ previous_states = NoStates
    /\ ev_input = FALSE
    /\ ev_consumer_ready = FALSE
    /\ ppc = "initialise"
    /\ ptimer = 0
    /\ cpc = "off"
    /\ servo_settings = [s \in Routed |-> None]
    /\ servos = [s \in Servos |-> ServoSG90(s)]
    /\ task = NoTasks
    /\ result = NoResult
    /\ read_states = NoStates
    /\ last_scan = NoStates
    /\ burst = NoBurst
    /\ repeat = FALSE
    /\ applied = NoStates

\* the coroutines of servos_as_p.ServoSG90
HwServoTask(s) ==
    \/ SetOffStart(s)
    \/ MoveStart(s)
    \/ MoveStep(s)
    \/ SetCommit(s)

\* what the scheduler runs
HwRun ==
    \/ Initialise
    \/ HwMainStart
    \/ HwPollWake
    \/ HwPollResume
    \/ ConsumerStart
    \/ ConsumerWake
    \/ UpdateReturn
    \/ \E s \in Servos : HwServoTask(s)
    \/ Advance

HwNext == HwRun \/ HwChange

HwSpec == HwInit /\ [][HwNext]_vars

\* the scheduler always runs a task that is due, and the clock runs
HwLiveSpec == HwSpec /\ WF_vars(HwRun)

\* =================================================================
\* as_sw_servos.py / as_http_servos.py with as_servo.py, as_sw_input.py
\* =================================================================
U16_MIN == 1638
U16_MAX == 8192
U16_DEGREES_x100 == 3641    \* U16_DEGREES = 36.41
NOT_SET == -1
steps == 100
SETTLE_ms == 200            \* settling period before zero pulse
POLL_ms == 200
NotInt == -2                \* a parameter value that int() does not accept

AsPrograms == {"as_sw_servos", "as_http_servos"}

\* switches by index, servos by index (first two switches of the tables)
VSwitches == {0, 1}
controlled_servos == (0 :> {0, 1}) @@ (1 :> {2})
servo_pins == (0 :> 2) @@ (1 :> 3) @@ (2 :> 4)

\* off degrees, on degrees, int(transit_time * 1000)
as_servo_params ==
    ("as_sw_servos" :> ((0 :> <<70, 110, 1000>>) @@ (1 :> <<80, 100, 1000>>)
                        @@ (2 :> <<45, 135, 1000>>)))
    @@ ("as_http_servos" :> ((0 :> <<59, 103, 1000>>)
                             @@ (1 :> <<77, 103, 1000>>)
                             @@ (2 :> <<45, 135, 1000>>)))

\* int(degrees * U16_DEGREES) + U16_MIN
degrees_to_u16(degrees) == (degrees * U16_DEGREES_x100) \div 100 + U16_MIN

\* as_servo.ServoSG90.__init__
AsServoSG90(program, i) ==
    [pin |-> servo_pins[i],
     off_u16 |-> degrees_to_u16(as_servo_params[program][i][1]),
     on_u16 |-> degrees_to_u16(as_servo_params[program][i][2]),
     transit_ms |-> as_servo_params[program][i][3],
     saved_state |-> NOT_SET, duty |-> None, writes |-> 0]

\* set_to_u16 with constrain=True; duty_u16()
set_to_u16(sv, demand_u16) ==
    [sv EXCEPT !.duty = Min(Max(demand_u16, U16_MIN), U16_MAX),
               !.writes = @ + 1]

set_on(sv) == [set_to_u16(sv, sv.on_u16) EXCEPT !.saved_state = ON]

set_off(sv) == [set_to_u16(sv, sv.off_u16) EXCEPT !.saved_state = OFF]

activate_pulse_u16(sv) ==
    IF sv.saved_state = 1 THEN set_to_u16(sv, sv.on_u16)
    ELSE IF sv.saved_state = 0 THEN set_to_u16(sv, sv.off_u16)
    ELSE sv

zero_pulse_u16(sv) == [sv EXCEPT !.duty = 0, !.writes = @ + 1]

\* PWM.deinit(): the output is disabled
deinit(sv) == [sv EXCEPT !.duty = None]

\* pw_step = round((demand_u16 - pw_u16) / steps, 2), in hundredths
pw_step_x100(demand_u16, pw_u16) == ((demand_u16 - pw_u16) * 100) \div steps

\* int(pw_u16) of the float sum whose exact value is pw_x100 / 100: the
\* rounding error of the sum decides the result next to a whole number
int_of(pw_x100) ==
    {pw_x100 \div 100}
    \cup (IF pw_x100 % 100 < FloatErr THEN {pw_x100 \div 100 - 1} ELSE {})
    \cup (IF pw_x100 % 100 >= 100 - FloatErr
          THEN {pw_x100 \div 100 + 1} ELSE {})

AsSwitchOf(s) == CHOOSE i \in VSwitches : s \in controlled_servos[i]

\* as_http_servos.startup: set_off, sleep_ms(500), deinit for every servo
as_http_started(i) == deinit(set_off(AsServoSG90("as_http_servos", i)))

\* as_sw_servos.startup: set every servo directly from its switch, then
\* sleep_ms(500) and zero_pulse
as_sw_started(i, states) ==
    LET sv == AsServoSG90("as_sw_servos", i)
        sw_state == states[AsSwitchOf(i)]
    IN zero_pulse_u16(IF sw_state = 1 THEN set_on(sv)
                      ELSE IF sw_state = 0 THEN set_off(sv) ELSE sv)

\* as_servo.move_linear from its first run to its first sleep (or return)
AsMoveStart(s) ==
    /\ task[s].pc = "launched" /\ task[s].op = "as_move"
    /\ LET sv == activate_pulse_u16(servos[s])
           set_state == task[s].demand_state
       IN IF set_state \notin {0, 1}
          THEN /\ servos' = [servos EXCEPT ![s] = sv]
               /\ task' = [task EXCEPT ![s].pc = "done"]
          ELSE LET pw_u16 == IF set_state = 1 THEN sv.off_u16 ELSE sv.on_u16
                   demand_u16 == IF set_state = 1 THEN sv.on_u16
                                 ELSE sv.off_u16
                   pw_step == pw_step_x100(demand_u16, pw_u16)
                   pw1 == pw_u16 * 100 + pw_step
               IN /\ \E v \in int_of(pw1) :
                        servos' = [servos EXCEPT ![s] = set_to_u16(sv, v)]
                  /\ task' = [task EXCEPT ![s].pc = "step",
                                          ![s].timer = sv.transit_ms \div steps,
                                          ![s].x = 1,
                                          ![s].pw = pw1,
                                          ![s].pw_inc = pw_step]
    /\ UNCHANGED <<prog, env, swvars, ppc, ptimer, cpc, servo_settings,
                   result, hist>>

\* move_linear after a pause: the next step, or final_setting() and the
\* settling sleep
AsMoveStep(s) ==
    /\ task[s].pc = "step" /\ task[s].timer = 0 /\ task[s].op = "as_move"
    /\ IF task[s].x < steps
       THEN LET pw1 == task[s].pw + task[s].pw_inc
            IN /\ \E v \in int_of(pw1) :
                     servos' = [servos EXCEPT ![s] = set_to_u16(@, v)]
               /\ task' = [task EXCEPT
                             ![s].x = @ + 1,
                             ![s].pw = pw1,
                             ![s].timer = servos[s].transit_ms \div steps]
       ELSE /\ servos' = [servos EXCEPT
                           ![s] = IF task[s].demand_state = 1 THEN set_on(@)
                                  ELSE set_off(@)]
            /\ task' = [task EXCEPT ![s].pc = "set_sleep",
                                    ![s].timer = SETTLE_ms]
    /\ UNCHANGED <<prog, env, swvars, ppc, ptimer, cpc, servo_settings,
                   result, hist>>

\* move_linear after the settling sleep: zero_pulse(); return pin, state
AsMoveEnd(s) ==
    /\ task[s].pc = "set_sleep" /\ task[s].timer = 0
    /\ task[s].op = "as_move"
    /\ servos' = [servos EXCEPT ![s] = zero_pulse_u16(@)]
    /\ task' = [task EXCEPT ![s].pc = "done",
                            ![s].ret = servos[s].saved_state,
                            ![s].ret_pin = servos[s].pin]
    /\ UNCHANGED <<prog, env, swvars, ppc, ptimer, cpc, servo_settings,
                   result, hist>>

\* SwitchInput.__init__: switch_states = [0 for _ in range(n_switches)]
AsNoSwitches == [i \in VSwitches |-> 0]

\* Event.set() on ev_input: the main loop, if it waits, becomes due
ev_input_set ==
    /\ ev_input' = TRUE
    /\ cpc' = IF cpc = "as_wait" THEN "as_woken" ELSE cpc

\* HwSwitches.scan_switches: set_v_sw(i, switch.get_state()) for all i
as_scan_switches == [i \in VSwitches |-> HwSwitch_state(i)]

\* HwSwitches.poll_switches: scan, ev_input.set(), sleep_ms(POLL_ms)
AsPoll ==
    /\ prog = "as_sw_servos" /\ ppc = "sleep" /\ ptimer = 0
    /\ switch_states' = as_scan_switches
    /\ last_scan' = scan_switches
    /\ ev_input_set
    /\ ptimer' = POLL_ms
    /\ UNCHANGED <<prog, env, previous_states, ev_consumer_ready, ppc,
                   servo_settings, srv, read_states, burst, repeat, applied>>

\* the servos whose saved_state differs from their switch
AsMoves(states) ==
    {s \in Servos : servos[s].saved_state # states[AsSwitchOf(s)]}

\* main loop, from the top to its next suspension; ev is ev_input here.
\* With no task to run and the event set, wait() returns at once, the
\* event is cleared and the next pass finds the same switch states.
AsLoopTop(ev) ==
    LET moves == AsMoves(switch_states)
    IN /\ read_states' = switch_states
       /\ servo_settings' = [s \in moves |-> switch_states[AsSwitchOf(s)]]
       /\ IF moves # {}
          THEN /\ task' = [s \in Servos |->
                             IF s \in moves
                             THEN NewTask("as_move",
                                          switch_states[AsSwitchOf(s)])
                             ELSE IdleTask]
               /\ servos' = ClearWrites(servos)
               /\ cpc' = "as_gather"
               /\ ev_input' = ev
          ELSE /\ task' = NoTasks
               /\ cpc' = "as_wait"
               /\ ev_input' = FALSE
               /\ UNCHANGED servos

\* main() enters its loop
AsStart ==
    /\ prog \in AsPrograms /\ cpc = "as_start"
    /\ AsLoopTop(ev_input)
    /\ UNCHANGED <<prog, env, switch_states, previous_states,
                   ev_consumer_ready, ppc, ptimer, result, last_scan, burst,
                   repeat, applied>>

\* the gather returns; await ev_input.wait(); ev_input.clear()
AsGatherReturn ==
    /\ prog \in AsPrograms /\ cpc = "as_gather" /\ gather_done
    /\ result' = GatherResult
    /\ IF ev_input
       THEN AsLoopTop(FALSE)
       ELSE /\ cpc' = "as_wait"
            /\ task' = NoTasks
            /\ UNCHANGED <<ev_input, servo_settings, servos, read_states>>
    /\ UNCHANGED <<prog, env, switch_states, previous_states,
                   ev_consumer_ready, ppc, ptimer, last_scan, burst, repeat,
                   applied>>

\* resumed by ev_input.set(): ev_input.clear() and the next pass
AsWake ==
    /\ prog \in AsPrograms /\ cpc = "as_woken"
    /\ AsLoopTop(FALSE)
    /\ UNCHANGED <<prog, env, switch_states, previous_states,
                   ev_consumer_ready, ppc, ptimer, result, last_scan, burst,
                   repeat, applied>>

\* ------------------------------------- HttpSwitches.serve_client
\* a parameter "s<k>=<v>" of a /data request: a value 0 or 1, another
\* integer, or no integer
Params == [k : VSwitches, v : {0, 1, BAD_DEMAND, NotInt}]

\* the requests a client sends: /data with one or two parameters, /form,
\* and any other path
Requests ==
    [path : {"data"},
     params : {<<p>> : p \in Params}
              \cup {<<p, q>> : p \in Params, q \in Params}]
    \cup [path : {"form", "other"}, params : {<< >>}]

\* respond(request): set_v_sw(int(key[1:]), int(value)) for each parameter
\* in turn; int() raises on a value that is no integer, which ends the loop
RECURSIVE respond(_, _)
respond(states, params) ==
    IF params = << >> THEN [states |-> states, ok |-> TRUE]
    ELSE LET p == Head(params)
         IN IF p.v = NotInt THEN [states |-> states, ok |-> FALSE]
            ELSE respond([states EXCEPT ![p.k] = p.v], Tail(params))

\* a request arrives while the scheduler waits and is served: /data is
\* applied and sets ev_input (unless respond raised), /form sets ev_input
ServeClient ==
    /\ prog = "as_http_servos" /\ requests < MaxRequests /\ ~Due
    /\ requests' = requests + 1
    /\ \E request \in Requests :
          LET r == respond(switch_states, request.params)
          IN /\ switch_states' = r.states
             /\ applied' = IF r.ok THEN respond(applied, request.params).states
                           ELSE applied
             /\ IF request.path \in {"data", "form"} /\ r.ok
                THEN ev_input_set
                ELSE UNCHANGED <<ev_input, cpc>>
    /\ UNCHANGED <<prog, pin_value, changes, request_line,
                   previous_states,
                   ev_consumer_ready, ppc, ptimer, servo_settings, srv,
                   read_states, last_scan, burst, repeat>>

\* ------------------------------------------------------- specification
Init ==
    /\ prog \in Programs
    /\ pin_value \in [Switches -> {HW_ON, HW_OFF}]
    /\ changes = 0
    /\ requests = 0
    /\ request_line = NoRequest
    /\ switch_states = NoStates
    /\ previous_states = NoStates
    /\ ev_input = FALSE
    /\ ev_consumer_ready = FALSE
    /\ ppc = IF prog = "main_00" THEN "poll" ELSE "initialise"
    /\ ptimer = 0
    /\ cpc = "off"
    /\ servo_settings = [s \in Routed |-> None]
    /\ servos = IF prog = "main_00"
                THEN [s \in Servos |-> initialised_sync(s)]
                ELSE [s \in Servos |-> ServoSG90(s)]
    /\ task = NoTasks
    /\ result = NoResult
    /\ read_states = NoStates
    /\ last_scan = NoStates
    /\ burst = NoBurst
    /\ repeat = FALSE
    /\ applied = NoStates

ServoTask(s) ==
    \/ SetOffStart(s)
    \/ MoveStart(s)
    \/ MoveStep(s)
    \/ SetCommit(s)
    \/ SyncMoveStart(s)
    \/ SyncMoveStep(s)
    \/ SyncMoveEnd(s)

\* what the scheduler runs
Run ==
    \/ Initialise
    \/ MainStart
    \/ PollWake
    \/ PollResume
    \/ ConsumerStart
    \/ ConsumerWake
    \/ UpdateReturn
    \/ TestUpdate
    \/ ControlPoll
    \/ ControlUpdated
    \/ ControlSleep
    \/ \E s \in Servos : ServoTask(s)
    \/ Advance

Next == Run \/ HwChange

Spec == Init /\ [][Next]_vars

\* the scheduler always runs a task that is due, and the clock runs
LiveSpec == Spec /\ WF_vars(Run)

\* the user parameters of a run: those of the source, a servo whose on
\* position is beyond DEGREES_MAX, and a servo whose on position is
\* DEGREES_MIN
CfgParams ==
    {servo_params,
     [servo_params EXCEPT ![0] = <<70, 200, 1000>>],
     [servo_params EXCEPT ![1] = <<110, 0, 1000>>]}

\* the programs started with any of these parameter sets
CfgInit ==
    /\ prog \in Programs
    /\ pin_value \in [Switches -> {HW_ON, HW_OFF}]
    /\ changes = 0
    /\ requests = 0
    /\ request_line = NoRequest
    /\ switch_states = NoStates
    /\ previous_states = NoStates
    /\ ev_input = FALSE
    /\ ev_consumer_ready = FALSE
    /\ ppc = IF prog = "main_00" THEN "poll" ELSE "initialise"
    /\ ptimer = 0
    /\ cpc = "off"
    /\ servo_settings = [s \in Routed |-> None]
    /\ \E cfg \in CfgParams :
          servos = IF prog = "main_00"
                   THEN [s \in Servos |-> initialised(ServoWith(cfg[s]))]
                   ELSE [s \in Servos |-> ServoWith(cfg[s])]
    /\ task = NoTasks
    /\ result = NoResult
    /\ read_states = NoStates
    /\ last_scan = NoStates
    /\ burst = NoBurst
    /\ repeat = FALSE
    /\ applied = NoStates

CfgSpec == CfgInit /\ [][Next]_vars

\* as_sw_servos / as_http_servos after build_system()/get_objects() and
\* startup(), with the poll task created (as_sw_servos)
AsInit ==
    /\ prog \in AsPrograms
    /\ pin_value \in IF prog = "as_sw_servos"
                     THEN [VSwitches -> {HW_ON, HW_OFF}]
                     ELSE {<< >>}
    /\ changes = 0
    /\ requests = 0
    /\ request_line = NoRequest
    /\ switch_states = IF prog = "as_sw_servos" THEN as_scan_switches
                       ELSE AsNoSwitches
    /\ previous_states = AsNoSwitches
    /\ ev_input = FALSE
    /\ ev_consumer_ready = FALSE
    /\ ppc = IF prog = "as_sw_servos" THEN "sleep" ELSE "serve"
    /\ ptimer = 0
    /\ cpc = "as_start"
    /\ servo_settings = NoResult
    /\ servos = IF prog = "as_sw_servos"
                THEN [s \in Servos |-> as_sw_started(s, as_scan_switches)]
                ELSE [s \in Servos |-> as_http_started(s)]
    /\ task = NoTasks
    /\ result = NoResult
    /\ read_states = AsNoSwitches
    /\ last_scan = switch_states
    /\ burst = NoBurst
    /\ repeat = FALSE
    /\ applied = AsNoSwitches

AsServoTask(s) ==
    \/ AsMoveStart(s)
    \/ AsMoveStep(s)
    \/ AsMoveEnd(s)

\* what the scheduler runs
AsRun ==
    \/ AsStart
    \/ AsGatherReturn
    \/ AsWake
    \/ AsPoll
    \/ \E s \in Servos : AsServoTask(s)
    \/ Advance

AsNext == AsRun \/ ServeClient \/ HwChange

AsSpec == AsInit /\ [][AsNext]_vars

\* the scheduler always runs a task that is due, and the clock runs
AsLiveSpec == AsSpec /\ WF_vars(AsRun)

\* =================================================================
\* servos_as_ns.py: ServoSG90 with motion profiles, and its test program
\* =================================================================
DEGREES_ABS_MIN == 0
DEGREES_ABS_MAX == 180

\* fault injection: a table whose last waypoint is short of (100, 100)
short_coords ==
    [linear |-> << <<100, 90>> >>,
     overshoot |-> << <<50, 110>>, <<65, 120>>, <<90, 90>>, <<100, 100>> >>,
     bounce |-> << <<50, 100>>, <<62, 75>>, <<75, 100>>, <<88, 90>>,
                   <<100, 100>> >>,
     s_curve |-> << <<25, 10>>, <<75, 90>>, <<100, 100>> >>,
     slowing |-> << <<25, 54>>, <<50, 81>>, <<75, 95>>, <<100, 100>> >>]

\* fault injection: a waypoint of the s_curve profile is beyond the range
wide_coords ==
    [linear |-> << <<100, 100>> >>,
     overshoot |-> << <<50, 110>>, <<65, 120>>, <<90, 90>>, <<100, 100>> >>,
     bounce |-> << <<50, 100>>, <<62, 75>>, <<75, 100>>, <<88, 90>>,
                   <<100, 100>> >>,
     s_curve |-> << <<25, 10>>, <<75, 190>>, <<100, 100>> >>,
     slowing |-> << <<25, 54>>, <<50, 81>>, <<75, 95>>, <<100, 100>> >>]

\* segment-end coordinates (x: % of transit time, y: % of rotation)
motion_coords ==
    [linear |-> << <<100, 100>> >>,
     overshoot |-> << <<50, 110>>, <<65, 120>>, <<90, 90>>, <<100, 100>> >>,
     bounce |-> << <<50, 100>>, <<62, 75>>, <<75, 100>>, <<88, 90>>,
                   <<100, 100>> >>,
     s_curve |-> << <<25, 10>>, <<75, 90>>, <<100, 100>> >>,
     slowing |-> << <<25, 54>>, <<50, 81>>, <<75, 95>>, <<100, 100>> >>]

\* a table a user adds to motion_coords: two waypoints at the same time
\* fraction (a jump in position)
user_coords == [jump |-> << <<50, 50>>, <<50, 80>>, <<100, 100>> >>]

\* as_servo.py: the table kept for move_coords
as_motion_coords ==
    [linear |-> << <<100, 100>> >>,
     bounce |-> << <<50, 110>>, <<65, 120>>, <<90, 90>>, <<100, 100>> >>,
     s_curve |-> << <<25, 10>>, <<75, 90>>, <<100, 100>> >>,
     slowing |-> << <<25, 54>>, <<50, 81>>, <<75, 95>>, <<100, 100>> >>]

\* the servo of the test program
NsPins == {0}

\* off degrees, on degrees (in tenths of a degree), int(transit_time * 1000):
\* the two servos of servos_as_ns.main, and a servo over the full rotation
\* with the default transit time
ns_servo_params ==
    {<<-455, 455, 2000>>, <<-450, 450, 2000>>, <<-900, 900, 1000>>}

\* degrees_offset of servos_as_ns.main, in tenths of a degree
ns_degrees_offset == 900

\* round(n / d) for d > 0, ties to the even neighbour
round_half_even(n, d) ==
    LET q == n \div d
        r == n % d
    IN IF 2 * r < d THEN q
       ELSE IF 2 * r > d THEN q + 1
       ELSE IF q % 2 = 0 THEN q ELSE q + 1

\* degrees_to_ns(degrees, offset), degrees and offset in tenths
ns_degrees_to_ns(degrees10, offset10) ==
    round_half_even(PW_MIN * 10 + (degrees10 + offset10) * NS_PER_DEGREE, 10)

\* degrees_offset setter: the offset within the absolute range
offset_in_range(offset10) ==
    Min(Max(offset10, DEGREES_ABS_MIN * 10), DEGREES_ABS_MAX * 10)

\* pin_servo: ServoSG90(pin, *params) and servo.degrees_offset = offset.
\* first / last record the first and the latest non-zero pulse-width written
\* since the current move was called.
NsServoSG90(params, motion) ==
    [off_ns |-> ns_degrees_to_ns(params[1],
                                 offset_in_range(ns_degrees_offset)),
     on_ns |-> ns_degrees_to_ns(params[2],
                                offset_in_range(ns_degrees_offset)),
     transit_ms |-> params[3],
     motion |-> motion,
     x_steps |-> IF params[3] < 2000 THEN 50 ELSE 100,
     state |-> None, duty |-> None, writes |-> 0,
     first |-> None, last |-> None]

\* fault injection: the demand goes to the hardware as it is
set_unclamped(sv, demand_ns) ==
    [sv EXCEPT !.duty = demand_ns, !.writes = @ + 1,
               !.first = IF @ = None THEN demand_ns ELSE @,
               !.last = demand_ns]

\* set_dc_ns: the demand within the set limits goes to duty_ns()
set_dc_ns(sv, demand_ns) ==
    LET v == Min(Max(demand_ns, PW_MIN), PW_MAX)
    IN [sv EXCEPT !.duty = v, !.writes = @ + 1,
                  !.first = IF @ = None THEN v ELSE @,
                  !.last = v]

set_servo_off(sv) == [set_dc_ns(sv, sv.off_ns) EXCEPT !.state = OFF]

\* fault injection: the on state is committed where the last step left
\* the servo
commit_on(sv) == [sv EXCEPT !.state = ON]

set_servo_on(sv) == [set_dc_ns(sv, sv.on_ns) EXCEPT !.state = ON]

ns_activate_pulse(sv) ==
    IF sv.state = ON THEN set_dc_ns(sv, sv.on_ns)
    ELSE set_dc_ns(sv, sv.off_ns)

ns_zero_pulse(sv) == [sv EXCEPT !.duty = 0, !.writes = @ + 1]

ns_x_inc(sv) == 100 \div sv.x_steps

\* round() of the float product y_to_pw * y whose exact value is n100 / 100:
\* next to a half the rounding error of the product decides
round_of(n100) ==
    LET q == n100 \div 100
        r == n100 % 100
    IN IF r < 45 THEN {q} ELSE IF r > 55 THEN {q + 1} ELSE {q, q + 1}

NsIdleTask == [pc |-> "idle", op |-> "none", demand_state |-> None, x |-> 0,
               seg |-> 0, start_pw |-> 0, pw_0 |-> 0, pw_1 |-> 0,
               ret |-> None]

\* the segments a move runs through: move_linear is one segment to (100, 100)
segments(sv, op) ==
    IF op = "move_linear" THEN << <<100, 100>> >>
    ELSE (motion_coords @@ user_coords)[sv.motion]

\* (x0, y0) of segment i
seg_origin(coords, i) == IF i = 1 THEN <<0, 0>> ELSE coords[i - 1]

\* pw_1 = round(y_to_pw * y1) with y_to_pw = (end_pw - start_pw) / 100; in
\* move_linear the whole range
pw_1_of(op, range_ns, y1) ==
    IF op = "move_linear" THEN {range_ns} ELSE round_of(range_ns * y1)

\* int(y) after the step that brought the task to t.x: the exact value of y
\* is start_pw + pw_0 + (x - x0) * (pw_1 - pw_0) / (x1 - x0)
int_y(t, coords) ==
    LET x0 == seg_origin(coords, t.seg)[1]
        x1 == coords[t.seg][1]
        y == t.start_pw + t.pw_0 + ((t.x - x0) * (t.pw_1 - t.pw_0)) \div (x1 - x0)
    IN {y + e : e \in -NsErr .. NsErr}

\* servos_as_ns.main: "for pin in servos: servos[pin].set_servo_off()"
NsSetOff ==
    /\ prog = "servos_as_ns" /\ ppc = "ns_init"
    /\ servos' = [s \in NsPins |-> set_servo_off(servos[s])]
    /\ ppc' = "ns_test"
    /\ UNCHANGED <<prog, env, swvars, ptimer, cpc, servo_settings, task,
                   result, hist>>

\* test_servos: the previous gather (if any) returns and the next move is
\* gathered; the test calls move_linear, move_coords is the other mover
NsTest ==
    /\ prog = "servos_as_ns" /\ ppc = "ns_test"
    /\ \A s \in NsPins : task[s].pc \in {"idle", "done"}
    /\ \E test_state \in DemandValues, op \in {"move_linear", "move_coords"} :
          /\ task' = [s \in NsPins |->
                        [NsIdleTask EXCEPT !.pc = "launched", !.op = op,
                                           !.demand_state = test_state]]
          /\ servo_settings' = [s \in NsPins |-> test_state]
    /\ servos' = [s \in NsPins |->
                    [servos[s] EXCEPT !.writes = 0, !.first = None,
                                      !.last = None]]
    /\ result' = [s \in {r \in NsPins : task[r].pc = "done"} |-> task[s].ret]
    /\ UNCHANGED <<prog, env, swvars, ppc, ptimer, cpc, hist>>

\* move_linear / move_coords from the call to the first sleep (or return)
NsMoveStart(s) ==
    /\ prog = "servos_as_ns" /\ task[s].pc = "launched"
    /\ LET sv == servos[s]
           d == task[s].demand_state
           coords == segments(sv, task[s].op)
       IN IF d = sv.state \/ d \notin {ON, OFF}
          THEN /\ task' = [task EXCEPT ![s].pc = "done", ![s].ret = None]
               /\ UNCHANGED servos
          ELSE IF coords[1][1] = 0
          THEN \* x1 - x0 = 0: ZeroDivisionError after activate_pulse()
               /\ task' = [task EXCEPT ![s].pc = "raised"]
               /\ servos' = [servos EXCEPT ![s] = ns_activate_pulse(sv)]
          ELSE LET start_pw == IF d = ON THEN sv.off_ns ELSE sv.on_ns
                   end_pw_ == IF d = ON THEN sv.on_ns ELSE sv.off_ns
               IN \E p1 \in pw_1_of(task[s].op, end_pw_ - start_pw,
                                    coords[1][2]) :
                     LET t == [task[s] EXCEPT !.pc = "step", !.seg = 1,
                                 !.x = ns_x_inc(sv), !.start_pw = start_pw,
                                 !.pw_0 = 0, !.pw_1 = p1]
                     IN /\ task' = [task EXCEPT ![s] = t]
                        /\ \E v \in int_y(t, coords) :
                              servos' = [servos EXCEPT
                                 ![s] = set_dc_ns(ns_activate_pulse(sv), v)]
    /\ UNCHANGED <<prog, env, swvars, ppc, ptimer, cpc, servo_settings,
                   result, hist>>

\* after a step pause: the next step of the segment, the first step of the
\* next segment, or set_demand() and the sleep before the zero pulse
NsMoveStep(s) ==
    /\ prog = "servos_as_ns" /\ task[s].pc = "step"
    /\ LET sv == servos[s]
           coords == segments(sv, task[s].op)
           x1 == coords[task[s].seg][1]
           range_ns == IF task[s].demand_state = ON THEN sv.on_ns - sv.off_ns
                       ELSE sv.off_ns - sv.on_ns
       IN IF task[s].x < x1
          THEN LET t == [task[s] EXCEPT !.x = @ + ns_x_inc(sv)]
               IN /\ task' = [task EXCEPT ![s] = t]
                  /\ \E v \in int_y(t, coords) :
                        servos' = [servos EXCEPT ![s] = set_dc_ns(sv, v)]
          ELSE IF task[s].seg < Len(coords) /\ coords[task[s].seg + 1][1] = x1
          THEN \* y_step divides by x1 - x0 = 0: ZeroDivisionError
               /\ task' = [task EXCEPT ![s].pc = "raised"]
               /\ UNCHANGED servos
          ELSE IF task[s].seg < Len(coords)
          THEN \E p1 \in pw_1_of(task[s].op, range_ns,
                                 coords[task[s].seg + 1][2]) :
                  LET t == [task[s] EXCEPT !.seg = @ + 1,
                              !.x = x1 + ns_x_inc(sv),
                              !.pw_0 = task[s].pw_1, !.pw_1 = p1]
                  IN /\ task' = [task EXCEPT ![s] = t]
                     /\ \E v \in int_y(t, coords) :
                           servos' = [servos EXCEPT ![s] = set_dc_ns(sv, v)]
          ELSE /\ servos' = [servos EXCEPT
                               ![s] = IF task[s].demand_state = ON
                                      THEN set_servo_on(sv)
                                      ELSE set_servo_off(sv)]
               /\ task' = [task EXCEPT ![s].pc = "settle"]
    /\ UNCHANGED <<prog, env, swvars, ppc, ptimer, cpc, servo_settings,
                   result, hist>>

\* after sleep_ms(self.MIN_SLEEP): zero_pulse(); return demand_state
NsMoveEnd(s) ==
    /\ prog = "servos_as_ns" /\ task[s].pc = "settle"
    /\ servos' = [servos EXCEPT ![s] = ns_zero_pulse(@)]
    /\ task' = [task EXCEPT ![s].pc = "done",
                            ![s].ret = task[s].demand_state]
    /\ UNCHANGED <<prog, env, swvars, ppc, ptimer, cpc, servo_settings,
                   result, hist>>

\* servos_as_ns.main after pin_servo(): one servo of the parameter table,
\* with one of the motion profiles
NsInit ==
    /\ prog = "servos_as_ns"
    /\ pin_value = << >>
    /\ changes = 0
    /\ requests = 0
    /\ request_line = NoRequest
    /\ switch_states = NoStates
    /\ previous_states = NoStates
    /\ ev_input = FALSE
    /\ ev_consumer_ready = FALSE
    /\ ppc = "ns_init"
    /\ ptimer = 0
    /\ cpc = "off"
    /\ servo_settings = NoResult
    /\ \E params \in ns_servo_params, motion \in DOMAIN motion_coords :
          servos = [s \in NsPins |-> NsServoSG90(params, motion)]
    /\ task = [s \in NsPins |-> NsIdleTask]
    /\ result = NoResult
    /\ read_states = NoStates
    /\ last_scan = NoStates
    /\ burst = NoBurst
    /\ repeat = FALSE
    /\ applied = NoStates

\* a servo whose profile is the user's table
NsUserInit ==
    /\ prog = "servos_as_ns"
    /\ pin_value = << >>
    /\ changes = 0
    /\ requests = 0
    /\ request_line = NoRequest
    /\ switch_states = NoStates
    /\ previous_states = NoStates
    /\ ev_input = FALSE
    /\ ev_consumer_ready = FALSE
    /\ ppc = "ns_init"
    /\ ptimer = 0
    /\ cpc = "off"
    /\ servo_settings = NoResult
    /\ \E params \in ns_servo_params, motion \in DOMAIN user_coords :
          servos = [s \in NsPins |-> NsServoSG90(params, motion)]
    /\ task = [s \in NsPins |-> NsIdleTask]
    /\ result = NoResult
    /\ read_states = NoStates
    /\ last_scan = NoStates
    /\ burst = NoBurst
    /\ repeat = FALSE
    /\ applied = NoStates

NsServoTask(s) ==
    \/ NsMoveStart(s)
    \/ NsMoveStep(s)
    \/ NsMoveEnd(s)

NsNext ==
    \/ NsSetOff
    \/ NsTest
    \/ \E s \in NsPins : NsServoTask(s)

NsSpec == NsInit /\ [][NsNext]_vars

NsUserSpec == NsUserInit /\ [][NsNext]_vars

\* the scheduler always runs a task that is ready
NsLiveSpec == NsSpec /\ WF_vars(NsNext)

\* =================================================================
\* HTTP switch input: http_as.HttpServer and as_sw_input.HttpSwitches
\* =================================================================
\* the servers: http_as.py with its own main loop, and HttpSwitches of
\* as_sw_input.py as the main loop of as_http_servos.py uses it
HttpPrograms == {"http_as", "as_sw_input"}

\* HttpServer.form_id: get_form_name() = '<n>V_<host>'
form_id == "2V_host"

\* the parameters "key=value" a client puts into a request: a switch set to
\* 0 or 1, or to another integer, a value that is no integer, a switch
\* index out of range, a parameter without '=', and the form identifier,
\* right or wrong
HttpParams ==
    {[k |-> "V0", eq |-> TRUE, v |-> "1"], [k |-> "V0", eq |-> TRUE, v |-> "0"],
     [k |-> "V0", eq |-> TRUE, v |-> "2"],
     [k |-> "V1", eq |-> TRUE, v |-> "1"], [k |-> "V1", eq |-> TRUE, v |-> "x"],
     [k |-> "V9", eq |-> TRUE, v |-> "1"], [k |-> "V0", eq |-> FALSE, v |-> ""],
     [k |-> "_id", eq |-> TRUE, v |-> form_id],
     [k |-> "_id", eq |-> TRUE, v |-> "other"]}

\* the request lines: /data?p&p&p, /data without '?', /form, another path
HttpRequests ==
    [path : {"data"}, query : {TRUE},
     params : UNION {[1 .. n -> HttpParams] : n \in 1 .. 3}]
    \cup [path : {"data", "form", "other"}, query : {FALSE},
          params : {<< >>}]

\* the request lines sent to a server: up to three parameters for
\* HttpServer, whose requests carry an '_id', up to two for HttpSwitches
RequestsTo(server) ==
    {req \in HttpRequests :
        server = "as_sw_input" => Len(req.params) <= 2}

\* int(value); NotInt where int() raises ValueError
int_value(v) ==
    IF v = "0" THEN 0 ELSE IF v = "1" THEN 1 ELSE IF v = "2" THEN 2
    ELSE NotInt

\* int(key[1:]) in HttpSwitches.respond
key_index(k) ==
    IF k = "V0" THEN 0 ELSE IF k = "V1" THEN 1 ELSE IF k = "V9" THEN 9
    ELSE NotInt

\* VSwitches.keys as indices ('V0', 'V1')
key_of(i) == IF i = 0 THEN "V0" ELSE "V1"

\* HttpSwitches.respond: each parameter in turn is split at '=' and
\* set_v_sw(int(key[1:]), int(value)) is called; an exception ends it
RECURSIVE sw_respond(_, _)
sw_respond(states, params) ==
    IF params = << >> THEN [states |-> states, ok |-> TRUE]
    ELSE LET p == Head(params)
         IN IF \/ ~p.eq
               \/ key_index(p.k) \notin DOMAIN states
               \/ int_value(p.v) = NotInt
            THEN [states |-> states, ok |-> FALSE]
            ELSE sw_respond([states EXCEPT ![key_index(p.k)] = int_value(p.v)],
                            Tail(params))

\* HttpSwitches.serve_client: the outcome of serving req
sw_serve(states, req) ==
    IF req.path = "data"
    THEN IF ~req.query THEN {[states |-> states, ok |-> FALSE]}
         ELSE {sw_respond(states, req.params)}
    ELSE {[states |-> states, ok |-> req.path = "form"]}

\* parse_parameters: p_dict[key] = value, a later parameter replaces an
\* earlier one with the same key
parse_parameters(params) ==
    [k \in {params[i].k : i \in DOMAIN params} |->
        LET last == CHOOSE i \in DOMAIN params :
                       /\ params[i].k = k
                       /\ \A j \in DOMAIN params : params[j].k = k => j <= i
        IN params[last].v]

\* fault injection: every form identifier is accepted
id_any(parameters) == TRUE

\* "if parameters['_id'] == self.form_id"
id_matches(parameters) == parameters["_id"] = form_id

\* the orders in which a dictionary with the keys D may yield them
Orders(D) ==
    {q \in [1 .. Cardinality(D) -> D] :
        \A i, j \in DOMAIN q : i # j => q[i] # q[j]}

\* VSwitches.set_v_switch: self._states[key] = state; a key that the
\* dictionary does not have is added to it
set_v_switch(states, i, state) ==
    [k \in DOMAIN states \cup {i} |-> IF k = i THEN state ELSE states[k]]

\* fault injection: every key with a switch number is taken for a switch
any_key(key) == key_index(key) # NotInt

\* "if key in self.v_switches.keys"
in_keys(key) == key_index(key) \in VSwitches

\* set_v_switches: "for key in parameters_" in the order keys; the keys
\* that are no switch are skipped, int() of a bad value raises
RECURSIVE set_v_switches(_, _, _)
set_v_switches(states, parameters, keys) ==
    IF keys = << >> THEN [states |-> states, ok |-> TRUE]
    ELSE LET key == Head(keys)
         IN IF ~in_keys(key)
            THEN set_v_switches(states, parameters, Tail(keys))
            ELSE IF int_value(parameters[key]) = NotInt
            THEN [states |-> states, ok |-> FALSE]
            ELSE set_v_switches(
                    set_v_switch(states, key_index(key),
                                 int_value(parameters[key])),
                    parameters, Tail(keys))

\* HttpServer.serve_client / parse_request: the outcomes of serving req;
\* the order in which a dictionary yields its keys is not fixed
parse_request(states, req) ==
    IF req.path = "data"
    THEN IF ~req.query \/ \E i \in DOMAIN req.params : ~req.params[i].eq
         THEN {[states |-> states, ok |-> FALSE]}
         ELSE LET parameters == parse_parameters(req.params)
              IN IF "_id" \notin DOMAIN parameters
                 THEN {[states |-> states, ok |-> FALSE]}
                 ELSE IF id_matches(parameters)
                 THEN {set_v_switches(states, parameters, keys) :
                          keys \in Orders(DOMAIN parameters)}
                 ELSE {[states |-> states, ok |-> FALSE]}
    ELSE {[states |-> states, ok |-> req.path = "form"]}

\* a client's request is served; ev_input.set() ends a successful /data
\* or /form request (http_as: after "await self.ev_main_ready.wait()")
HttpServe ==
    /\ prog \in HttpPrograms /\ requests < MaxRequests
    /\ ev_consumer_ready
    /\ requests' = requests + 1
    /\ \E req \in RequestsTo(prog) :
          /\ request_line' = req
          /\ \E r \in IF prog = "http_as"
                      THEN parse_request(switch_states, req)
                      ELSE sw_serve(switch_states, req) :
                /\ switch_states' = r.states
                /\ ev_input' = (ev_input \/ r.ok)
    /\ UNCHANGED <<prog, pin_value, changes, previous_states,
                   ev_consumer_ready, ppc, ptimer, cpc, servo_settings, srv,
                   hist>>

\* fault injection: the main loop suspends with ev_main_ready clear
main_not_ready == FALSE

\* http_as.main: "http_server.ev_main_ready.set()" at the top of the loop,
\* reached from "ev_main_ready.clear()" without suspending
set_main_ready == TRUE

\* the main loop is resumed by ev_input: it clears the event (http_as: and
\* ev_main_ready, which it sets again at the top of the loop) and reads the
\* switch states
HttpMainLoop ==
    /\ prog \in HttpPrograms /\ ev_input
    /\ ev_input' = FALSE
    /\ ev_consumer_ready' = IF prog = "http_as" THEN set_main_ready
                            ELSE ev_consumer_ready
    /\ read_states' = switch_states
    /\ UNCHANGED <<prog, env, switch_states, previous_states, ppc, ptimer,
                   cpc, servo_settings, srv, last_scan, burst, repeat,
                   applied>>

\* the server is running and the main loop waits for ev_input
HttpInit ==
    /\ prog \in HttpPrograms
    /\ pin_value = << >>
    /\ changes = 0
    /\ requests = 0
    /\ request_line = NoRequest
    /\ switch_states = AsNoSwitches
    /\ previous_states = AsNoSwitches
    /\ ev_input = FALSE
    /\ ev_consumer_ready = TRUE
    /\ ppc = "serve"
    /\ ptimer = 0
    /\ cpc = "as_wait"
    /\ servo_settings = NoResult
    /\ servos = << >>
    /\ task = << >>
    /\ result = NoResult
    /\ read_states = AsNoSwitches
    /\ last_scan = AsNoSwitches
    /\ burst = NoBurst
    /\ repeat = FALSE
    /\ applied = AsNoSwitches

HttpNext == HttpServe \/ HttpMainLoop

HttpSpec == HttpInit /\ [][HttpNext]_vars

\* ------------------------------------------------------------ properties
\* steps of the behaviour that the properties speak about
\* the producer assigns _switch_states (and goes to sleep)
ScanStep == ppc' = "sleep" /\ ptimer' = poll_interval /\ ptimer = 0

\* ServoGroup.update is called: its moves are launched (or queued, in the
\* synchronous program)
UpdateStep ==
    \E s \in Servos : /\ task'[s].pc \in {"launched", "queued"}
                      /\ task[s].pc \notin {"launched", "queued"}
                      /\ task'[s].op # "set_off"

\* the consumer of main_01 starts a cycle
CycleStep == prog = "main_01" /\ UpdateStep

\* every routed servo is in the state the switches demand now
ServosFollow ==
    \A s \in Routed : servos[s].state = Demand(scan_switches)[s]

\* C1: no input change is lost.  Under fair scheduling of producer and
\* consumer, if the switches stop changing (the scanned state stays at a
\* value S), the consumer eventually has read S in a cycle and every
\* routed servo's state eventually equals what S demands, and stays so.
C1_NoLostUpdate ==
    (prog = "main_01" /\ <>[][UNCHANGED pin_value]_vars)
        => <>[](read_states = scan_switches /\ ServosFollow)

\* C1 witness: all input changes have happened, the consumer has read the
\* final state and waits, the servos are where the final state wants them
C1_Witness ==
    /\ prog = "main_01" /\ changes = MaxChanges
    /\ cpc = "wait_data" /\ ~ev_input
    /\ read_states = scan_switches /\ ServosFollow
    /\ \E s \in Routed : servos[s].state = ON

\* C2: handshake safety.  While the consumer is busy (from clearing
\* ev_consumer_ready to setting it again) the producer does not assign
\* _switch_states.
C2_NoWriteWhileBusy ==
    [][(prog = "main_01" /\ cpc = "gather") => ~ScanStep]_vars

\* C2 witness: the producer has come out of its sleep while the consumer is
\* busy and is held at ev_consumer_ready.wait()
C2_Witness ==
    /\ prog = "main_01" /\ cpc = "gather" /\ ~ev_consumer_ready
    /\ ppc = "wait_ready" /\ scan_switches # switch_states

\* C5: no change, no delivery.  A scan of poll_switches that equals
\* _previous_states does not set ev_input, wakes no consumer and starts no
\* update; main_00.control_servos calls update only in a round whose
\* switch state differs from prev_states.
C5_NoChangeNoDelivery ==
    [][/\ (prog = "main_01" /\ ScanStep /\ switch_states' = previous_states')
          => (ev_input' = ev_input /\ cpc' = cpc /\ ~UpdateStep)
       /\ (prog = "main_00" /\ UpdateStep)
          => switch_states' # previous_states']_vars

\* C5 witness: a scan has just found the switches as delivered before, the
\* event is clear and the consumer still waits
C5_Witness ==
    /\ prog = "main_01" /\ ppc = "sleep" /\ ptimer = poll_interval
    /\ switch_states = previous_states
    /\ ~ev_input /\ cpc = "wait_data" /\ changes > 0

\* C6: no duplicated delivery.  ev_input is raised only for a snapshot
\* that differs from the one the consumer read last, and every consume
\* cycle reads a snapshot that differs from the previous cycle's.
C6_NoDuplicate ==
    [][/\ CycleStep => read_states' # read_states
       /\ (prog = "main_01" /\ ~ev_input /\ ev_input')
          => switch_states' # read_states]_vars

\* C6 witness: a second or later cycle is under way on a snapshot that
\* differs from what was delivered before
C6_Witness ==
    /\ prog = "main_01" /\ cpc = "gather" /\ changes > 0
    /\ previous_states # NoStates
    /\ read_states = switch_states /\ read_states # previous_states

\* the main loop of as_sw_servos / as_http_servos reads switch_states
AsReadStep ==
    \/ cpc \in {"as_start", "as_woken"} /\ cpc' # cpc
    \/ cpc = "as_gather" /\ ev_input /\ (cpc' = "as_wait" \/ UpdateStep)

\* C3: no torn reads.  Whatever the main loop reads in one pass is one
\* snapshot: the switch states of one scan (hardware source,
\* as_sw_servos) or the switch states as the completely applied requests
\* left them (network source, as_http_servos), never a partly applied
\* update.
C3_NoTornRead ==
    [][/\ (prog = "as_sw_servos" /\ AsReadStep) => read_states' = last_scan
       /\ (prog = "as_http_servos" /\ AsReadStep)
             => read_states' = applied]_vars

\* C3, hardware source only: every snapshot read is that of a single scan
C3_HardwareReads ==
    [][/\ (prog = "as_sw_servos" /\ AsReadStep) => read_states' = last_scan
       /\ CycleStep => read_states' = last_scan]_vars

\* the burst is over: the producer has scanned its final value, the event
\* is clear and the consumer waits for data
BurstSettled ==
    /\ prog = "main_01" /\ burst.open
    /\ cpc = "wait_data" /\ ~ev_input /\ ppc = "sleep"
    /\ switch_states = burst.final /\ scan_switches = burst.final

\* C4 as stated: after two or more input changes during one busy phase the
\* consumer performs exactly one cycle for the burst and reads the final
\* value C in it.
C4_ExactlyOneCycle ==
    BurstSettled => (burst.cycles = 1 /\ read_states = burst.final)

\* C4 amended: last write wins.  After a burst the consumer performs at
\* most one cycle, and that cycle reads the final value C (never an
\* intermediate value); it performs that cycle exactly when C differs from
\* the snapshot it read before the burst, and none when C equals it.
C4_LastWriteWins ==
    burst.open =>
        /\ burst.cycles <= 1
        /\ burst.cycles = 1 => read_states = burst.final
        /\ BurstSettled =>
              /\ read_states = burst.final
              /\ burst.cycles = 1 <=> burst.final # burst.prev

\* C4 witness: three changes fell into one busy phase, the one cycle for
\* them has read the final value and the system is at rest again
C4_Witness ==
    /\ BurstSettled /\ burst.n = 3
    /\ burst.cycles = 1 /\ read_states = burst.final
    /\ burst.final # burst.prev

\* a call of ServoGroup.update(servo_settings) is in progress
InUpdate ==
    \/ prog = "servos_as_p" /\ ppc = "gather"
    \/ prog = "main_01" /\ cpc = "gather"
    \/ prog = "main_00" /\ ppc = "update"

\* move_linear is entered on servo s (first run of the task, or the call in
\* the synchronous program)
MoveEntered(s) ==
    /\ task[s].pc \in {"launched", "queued"} /\ task[s].op # "set_off"
    /\ task'[s].pc # task[s].pc

\* C7 as stated: move_linear(s) with s the committed state (OFF or ON)
\* writes nothing, does not suspend, changes no state and returns the
\* committed state.
C7_SameStateMove ==
    [][\A s \in Servos :
          (/\ MoveEntered(s)
           /\ servos[s].state \in {OFF, ON}
           /\ task[s].demand_state = servos[s].state)
          => /\ servos'[s] = servos[s]
             /\ task'[s].pc = "done"
             /\ task'[s].ret = servos[s].state]_vars

\* C8: update is idempotent.  A second update(d) with the demand of the
\* update that has just returned writes to no channel and leaves every
\* servo's state, pulse-width and output as they are.
C8_UpdateIdempotent ==
    [][(prog = "servos_as_p" /\ repeat') =>
          \A s \in Servos : /\ servos'[s].state = servos[s].state
                            /\ servos'[s].pw = servos[s].pw
                            /\ servos'[s].duty = servos[s].duty
                            /\ servos'[s].writes = 0]_vars

\* C8 witness: the repeated update has run to its end and its demand asks
\* for an ON and an OFF position, both reached by the update before
C8_Witness ==
    /\ prog = "servos_as_p" /\ repeat /\ ppc = "gather" /\ AllDone
    /\ \E s \in DOMAIN servo_settings :
          servo_settings[s] = ON /\ servos[s].state = ON
    /\ \E s \in DOMAIN servo_settings :
          servo_settings[s] = OFF /\ servos[s].state = OFF

\* update returns: the asynchronous caller goes on after its gather
ReturnStep ==
    \/ /\ prog = "servos_as_p" /\ ppc = "gather"
       /\ \/ UpdateStep
          \/ servo_settings' # servo_settings
    \/ /\ prog = "main_01" /\ cpc = "gather"
       /\ \/ cpc' = "wait_data"
          \/ UpdateStep

\* what holds of the servos when update(servo_settings) has joined
Joined ==
    /\ \A s \in Servos : task[s].pc \in {"idle", "done"}
    /\ \A c \in DOMAIN servo_settings :
          /\ task[c].pc = "done"
          /\ servo_settings[c] \in {OFF, ON}
                => servos[c].state = servo_settings[c]
          /\ servos[c].writes > 0 => servos[c].duty = 0

\* C9: join barrier.  When update(d) returns no move it launched is still
\* in progress, every channel of d with a demand of OFF or ON is in that
\* state and every channel that was moved has zero duty on its output.
C9_JoinBarrier == [][ReturnStep => Joined]_vars

\* C9 witness: an update that moved two servos over different times is
\* complete and about to return
C9_Witness ==
    /\ InUpdate /\ prog # "main_00" /\ Joined
    /\ servos[0].writes > 0 /\ servos[2].writes > 0
    /\ servos[0].state = ON /\ servos[2].state = ON

\* channel c is not to be moved by the update in progress: it is absent
\* from the demand, or it has the demanded state without having been driven
Untouched(c) ==
    \/ c \notin DOMAIN servo_settings
    \/ servos[c].state = servo_settings[c] /\ servos[c].writes = 0

\* C10: frame of update.  During update(d) there is no hardware write on,
\* and no change of state or pulse-width of, any channel that is absent
\* from d or whose state already equals d[c].
C10_UpdateFrame ==
    [][InUpdate =>
          \A c \in Servos :
              Untouched(c) =>
                  /\ servos'[c].state = servos[c].state
                  /\ servos'[c].pw = servos[c].pw
                  /\ servos'[c].duty = servos[c].duty
                  /\ servos'[c].writes = 0]_vars

\* C10 witness: servo 2 is in mid-sweep while servo 0, which had the
\* demanded state already, has returned from its move without a write
C10_Witness ==
    /\ prog = "servos_as_p" /\ ppc = "gather"
    /\ task[2].pc = "step" /\ task[2].x = 50
    /\ 0 \in DOMAIN servo_settings /\ servo_settings[0] = ON
    /\ task[0].pc = "done"
    /\ servos[0].state = ON /\ servos[0].writes = 0

\* the demand map d is the one the routing table derives from snapshot st
RoutedFrom(d, st) ==
    /\ DOMAIN d = UNION {switch_servos[p] : p \in DOMAIN st}
    /\ \A p \in DOMAIN st : \A s \in switch_servos[p] : d[s] = st[p]

\* the move on channel s has run its sweep: all steps, the final setting
\* and the zero pulse
Swept(s) == task[s].pc = "done" /\ task[s].x = X_END

\* duty writes of one sweep: activate_pulse, one per step, set_demand,
\* zero_pulse
SweepWrites == x_steps + 3

\* C11: routing.  The demand map built from a switch snapshot holds
\* exactly the servos the routing table lists and gives each the state of
\* its switch (all switches at 1 give a map of all 1); update() then
\* sweeps exactly the channels whose logical state differs from their
\* demand, each once, and writes nothing on the others.
C11_Routing ==
    [][/\ \A st \in [Switches -> {OFF, ON}] :
             /\ RoutedFrom(Demand(st), st)
             /\ DOMAIN Demand(st) = Routed
       /\ Demand([p \in Switches |-> ON]) = [s \in Routed |-> ON]
       /\ (prog = "main_01" /\ UpdateStep)
             => RoutedFrom(servo_settings', read_states')
       /\ (prog = "main_00" /\ UpdateStep)
             => RoutedFrom(servo_settings', switch_states')
       /\ \A s \in Servos :
             /\ (MoveEntered(s) /\ task[s].demand_state \in {OFF, ON})
                   => (task'[s].pc # "done"
                          <=> servos[s].state # task[s].demand_state)
             /\ (InUpdate' /\ task'[s].pc = "done")
                   => servos'[s].writes =
                         IF Swept(s)' THEN SweepWrites ELSE 0]_vars

\* C11 witness: all switches were read at 1 with every servo OFF, the
\* demand is 1 for every routed servo and each has been swept once to ON
C11_Witness ==
    /\ prog = "main_01" /\ cpc = "gather" /\ AllDone
    /\ read_states = [p \in Switches |-> 1]
    /\ servo_settings = [s \in Routed |-> ON]
    /\ \A s \in Routed : /\ Swept(s) /\ servos[s].state = ON
                         /\ servos[s].writes = SweepWrites

\* ServoGroup.update is called for the first time in this run
FirstUpdate ==
    /\ UpdateStep
    /\ \/ prog = "main_01" /\ read_states = NoStates
       \/ prog = "servos_as_p" /\ ppc = "init_gather"

\* the program has left its start-up: update has been called at least once
Started ==
    \/ prog = "main_01" /\ read_states # NoStates
    \/ prog = "servos_as_p" /\ ppc = "gather"

\* C12: start-up invariant.  When ServoGroup.update is called for the
\* first time (after construction and initialise) every configured servo
\* has state OFF and a zero output, and from then on no servo's state is
\* None.
C12_StartUp ==
    [][/\ FirstUpdate => \A s \in Servos : /\ servos'[s].state = OFF
                                           /\ servos'[s].duty = 0
       /\ Started' => \A s \in Servos : servos'[s].state \in {OFF, ON}]_vars

\* C12 witness: the first update of main_01 is under way, a servo is in
\* mid-sweep from OFF and the others still are OFF with a zero output
C12_Witness ==
    /\ prog = "main_01" /\ cpc = "gather" /\ previous_states = NoStates
    /\ \E s \in Servos : /\ task[s].pc = "step" /\ task[s].x = 50
                         /\ servos[s].state = OFF
    /\ \E s \in Servos : servos[s].state = OFF /\ servos[s].duty = 0

\* C12, as_http_servos: startup() leaves every servo with saved_state OFF
\* and its output disabled (deinit) before the main loop starts, and no
\* saved_state is NOT_SET afterwards
C12_HttpStartUp ==
    prog = "as_http_servos" =>
        \A s \in Servos :
            /\ servos[s].saved_state \in {OFF, ON}
            /\ cpc = "as_start" => /\ servos[s].saved_state = OFF
                                   /\ servos[s].duty = None

\* a value handed to duty_ns(): nothing yet, the zero pulse, or a
\* pulse-width within the absolute limits
InLimits(v) == v \in {None, 0} \/ (PW_MIN <= v /\ v <= PW_MAX)

\* C13: clamp totality.  Every non-zero pulse-width handed to the PWM
\* hardware by a direct set or by any step of a move lies in
\* [PW_MIN, PW_MAX], for every motion profile, both directions and every
\* configured off/on position.
C13_ClampTotality ==
    \A s \in DOMAIN servos :
        /\ InLimits(servos[s].duty)
        /\ prog = "servos_as_ns" => /\ InLimits(servos[s].first)
                                    /\ InLimits(servos[s].last)

\* C13 witness: a move with the overshoot profile towards an on position
\* below PW_MAX has computed a pulse-width above PW_MAX, and PW_MAX was
\* written
C13_Witness ==
    /\ prog = "servos_as_ns"
    /\ \E s \in NsPins : /\ task[s].pc = "step" /\ task[s].demand_state = ON
                         /\ servos[s].motion = "overshoot"
                         /\ servos[s].on_ns < PW_MAX
                         /\ servos[s].duty = PW_MAX

\* C13, servos_as_p / servos: move_servo writes no pulse-width outside the
\* limits
C13_MoveServo ==
    prog \in Programs => \A s \in Servos : InLimits(servos[s].duty)

\* a waypoint list: time fractions strictly increasing from above 0, ending
\* at (100, 100)
WellFormed(coords) ==
    /\ Len(coords) >= 1
    /\ coords[1][1] > 0
    /\ \A i \in 1 .. Len(coords) - 1 : coords[i][1] < coords[i + 1][1]
    /\ coords[Len(coords)] = <<100, 100>>

\* C14: waypoint well-formedness.  In every built-in motion profile table
\* (the five of servos_as_ns.motion_coords, the four of
\* as_servo._motion_coords) the time fractions are strictly increasing, the
\* first is above 0 and the last waypoint is exactly (100, 100); so every
\* segment a move runs through has a positive length in time.
C14_WaypointsWellFormed ==
    /\ DOMAIN motion_coords
          = {"linear", "overshoot", "bounce", "s_curve", "slowing"}
    /\ \A name \in DOMAIN motion_coords : WellFormed(motion_coords[name])
    /\ DOMAIN as_motion_coords = {"linear", "bounce", "s_curve", "slowing"}
    /\ \A name \in DOMAIN as_motion_coords :
          WellFormed(as_motion_coords[name])
    /\ \A s \in NsPins :
          task[s].pc = "step" =>
             LET coords == segments(servos[s], task[s].op)
             IN /\ WellFormed(coords)
                /\ seg_origin(coords, task[s].seg)[1] < coords[task[s].seg][1]

\* C14 witness: move_coords has gone through all five segments of the
\* bounce profile and stands at the final waypoint
C14_Witness ==
    /\ prog = "servos_as_ns"
    /\ \E s \in NsPins : /\ task[s].pc = "step" /\ task[s].op = "move_coords"
                         /\ servos[s].motion = "bounce"
                         /\ task[s].seg = Len(motion_coords["bounce"])
                         /\ task[s].x = 100

\* the configured pulse-width of state st of servo sv
ConfiguredPw(sv, st) == IF st = ON THEN sv.on_ns ELSE sv.off_ns

\* the state a sweep towards demand d starts from
Opposite(d) == IF d = ON THEN OFF ELSE ON

\* the move on s is a sweep (it has passed its early returns)
NsSweeping(s) == task[s].pc \in {"step", "settle"}
                 \/ (task[s].pc = "done" /\ task[s].ret # None)

\* C15: no drift.  In every sweep (OFF to ON, ON to OFF, 50 or 100 steps,
\* any profile) the first pulse-width written is exactly the configured
\* pulse-width of the state the move starts from and the last non-zero
\* pulse-width written is exactly the configured pulse-width of the
\* target; the configured values themselves never change, however many
\* moves have been made.
C15_NoDrift ==
    \A s \in NsPins :
        /\ \E params \in ns_servo_params :
              /\ servos[s].off_ns = NsServoSG90(params, "linear").off_ns
              /\ servos[s].on_ns = NsServoSG90(params, "linear").on_ns
        /\ NsSweeping(s) =>
              servos[s].first
                 = ConfiguredPw(servos[s], Opposite(task[s].demand_state))
        /\ (NsSweeping(s) /\ task[s].pc # "step") =>
              /\ servos[s].last
                    = ConfiguredPw(servos[s], task[s].demand_state)
              /\ servos[s].state = task[s].demand_state

\* C15 witness: after a sweep to ON, a 50-step sweep back to OFF along a
\* profile has ended; it began at on_ns and its last pulse was off_ns
C15_Witness ==
    /\ prog = "servos_as_ns" /\ result = [s \in NsPins |-> ON]
    /\ \E s \in NsPins :
          /\ task[s].pc = "done" /\ task[s].ret = OFF
          /\ task[s].op = "move_coords" /\ servos[s].x_steps = 50
          /\ servos[s].first = servos[s].on_ns
          /\ servos[s].last = servos[s].off_ns
          /\ servos[s].duty = 0 /\ servos[s].state = OFF

\* C15, servos_as_p / servos: a sweep starts with self.pw at the configured
\* pulse-width of the committed state (activate_pulse writes it) and ends
\* with the configured pulse-width of the target on the output
C15_MoveLinear ==
    [][\A s \in Servos :
          /\ (MoveEntered(s) /\ task'[s].pc # "done")
                => servos[s].pw = end_pw(servos[s], servos[s].state)
          /\ (task[s].pc \in {"step", "sync_step"}
              /\ task'[s].pc \in {"set_sleep", "sync_settle"})
                => /\ servos'[s].pw = end_pw(servos[s], task[s].demand_state)
                   /\ servos'[s].duty = servos'[s].pw]_vars

\* a request has been served in this step
ServeStep == prog \in HttpPrograms /\ requests' = requests + 1

\* the keys that name a switch, in range or not
SwitchKey(k) == k \in {"V0", "V1", "V9"}

\* a malformed /data request: no '?' part, a parameter without '=', no
\* '_id' (for the server that asks for one), a switch value that is no
\* integer, or a switch index out of range
Malformed(server, req) ==
    /\ req.path = "data"
    /\ \/ ~req.query
       \/ \E i \in DOMAIN req.params :
             \/ ~req.params[i].eq
             \/ SwitchKey(req.params[i].k)
                /\ int_value(req.params[i].v) = NotInt
             \/ req.params[i].k = "V9"
       \/ /\ server = "http_as"
          /\ \A i \in DOMAIN req.params : req.params[i].k # "_id"

\* the step leaves the virtual switches and the data event as they were
Rejected == switch_states' = switch_states /\ ev_input' = ev_input

\* C16 as stated: a malformed input request leaves every virtual switch
\* state as it was and does not set ev_input.
C16_MalformedRejected ==
    [][(ServeStep /\ Malformed(prog, request_line')) => Rejected]_vars

\* C16, the part that holds: a request without a '?' part, and in http_as
\* also one with a parameter without '=' or without an '_id', is rejected
\* before any switch is set
C16_ParseErrorsRejected ==
    [][(/\ ServeStep
        /\ request_line'.path = "data"
        /\ \/ ~request_line'.query
           \/ /\ prog = "http_as"
              /\ \/ \E i \in DOMAIN request_line'.params :
                       ~request_line'.params[i].eq
                 \/ \A i \in DOMAIN request_line'.params :
                       request_line'.params[i].k # "_id")
          => Rejected]_vars

\* a /data request that carries an '_id', none of them the server's form_id
Unauthenticated(req) ==
    /\ req.path = "data" /\ req.query
    /\ \E i \in DOMAIN req.params : req.params[i].k = "_id"
    /\ \A i \in DOMAIN req.params :
          req.params[i].k = "_id" => req.params[i].v # form_id

\* C17: an unauthenticated request, a /data request whose '_id' differs
\* from the server's form_id, changes no virtual switch state and does not
\* set ev_input, whatever switch keys and values it carries.
C17_UnauthenticatedRejected ==
    [][(ServeStep /\ prog = "http_as" /\ Unauthenticated(request_line'))
          => Rejected]_vars

\* C17 witness: a request with a wrong '_id' that asks for switch V0 to be
\* set to 1 has been served; V0 still is 0 and the event is clear
C17_Witness ==
    /\ prog = "http_as" /\ requests = 1
    /\ Unauthenticated(request_line)
    /\ \E i \in DOMAIN request_line.params :
          request_line.params[i].k = "V0" /\ request_line.params[i].v = "1"
    /\ \A i \in DOMAIN request_line.params : request_line.params[i].eq
    /\ switch_states[0] = 0 /\ ~ev_input

\* a step of the logical state: none, or Unset -> Off, Unset -> On,
\* Off -> On, On -> Off
LegalStep(a, b) ==
    \/ a = b
    \/ a = None /\ b \in {OFF, ON}
    \/ a = OFF /\ b = ON
    \/ a = ON /\ b = OFF

\* C18: actuator state machine.  Under any sequence of initialise, set,
\* move and update operations a servo's state makes only the transitions
\* Unset -> Off, Unset -> On, Off -> On and On -> Off or stays as it is;
\* once Off or On it never becomes Unset or any other value (not even
\* when a move is called with a demand that is neither).
C18_StateMachine ==
    [][\A s \in Servos : LegalStep(servos[s].state, servos'[s].state)]_vars

\* C18 witness: a servo has gone from Unset to Off (initialise), to On and
\* back to Off (two sweeps), and a move with a bad demand has returned
\* on another servo
C18_Witness ==
    /\ prog = "servos_as_p" /\ ppc = "gather"
    /\ \E s \in Servos : /\ Swept(s) /\ task[s].demand_state = OFF
                         /\ servos[s].state = OFF
    /\ \E s \in Servos : /\ task[s].pc = "done"
                         /\ task[s].demand_state = BAD_DEMAND
                         /\ servos[s].state \in {OFF, ON}

\* C18, servos_as_ns: set_servo_off / set_servo_on and the moves
C18_NsStateMachine ==
    [][\A s \in NsPins : LegalStep(servos[s].state, servos'[s].state)]_vars

\* v lies between the configured off and on pulse-widths of sv
InChannel(sv, v) ==
    /\ Min(sv.off_ns, sv.on_ns) <= v
    /\ v <= Max(sv.off_ns, sv.on_ns)

\* C19 as stated: position envelope.  At every step of every move the
\* servo's current pulse-width (self.pw) lies within [PW_MIN, PW_MAX] and
\* between the channel's configured off and on pulse-widths.
C19_PositionEnvelope ==
    prog \in Programs =>
        \A s \in Servos :
            servos[s].pw # None =>
                /\ PW_MIN <= servos[s].pw /\ servos[s].pw <= PW_MAX
                /\ InChannel(servos[s], servos[s].pw)

\* C19, the part that holds for the configured channels of servos_as_p /
\* servos: self.pw stays within the absolute limits, and it leaves the
\* channel's interval by less than x_steps ns, on the side of the target
C19_GlobalEnvelope ==
    prog \in Programs =>
        \A s \in Servos :
            servos[s].pw # None =>
                /\ PW_MIN <= servos[s].pw /\ servos[s].pw <= PW_MAX
                /\ Min(servos[s].off_ns, servos[s].on_ns) - x_steps
                      < servos[s].pw
                /\ servos[s].pw <= Max(servos[s].off_ns, servos[s].on_ns)

\* C19 as stated, for servos_as_ns: every pulse-width a move writes lies
\* between the configured off and on pulse-widths (the 'overshoot' profile
\* goes to 120 % of the range)
C19_NsChannelEnvelope ==
    prog = "servos_as_ns" =>
        \A s \in NsPins :
            servos[s].duty \notin {None, 0}
                => InChannel(servos[s], servos[s].duty)

\* move_linear on s is inside its sweep: past the early returns, not yet
\* returned
InSweep(s) ==
    /\ task[s].op \in {"move_linear", "sync_move"}
    /\ task[s].pc \in {"step", "set_sleep", "sync_step", "sync_settle"}

\* the sweep on s has ended: the target state is committed, the output is
\* zeroed and move_linear has returned
Completed(s) ==
    /\ Swept(s)
    /\ servos[s].state = task[s].demand_state
    /\ servos[s].duty = 0

\* a sweep in progress is only ever continued: its task is not removed or
\* restarted, its demand is not replaced and it takes no step past x = 100
NoAbort ==
    \A s \in Servos :
        InSweep(s) =>
            /\ InSweep(s)' \/ Completed(s)'
            /\ task'[s].demand_state = task[s].demand_state
            /\ task'[s].x >= task[s].x /\ task'[s].x <= X_END

\* C20: run to completion.  Once move_linear has started a sweep (demand
\* OFF or ON and different from the committed state), under fair
\* scheduling it ends after finitely many steps with the target state
\* committed and the output zeroed, and no action of another task cancels
\* or aborts it.
C20_RunToCompletion ==
    /\ \A s \in Servos : InSweep(s) ~> Completed(s)
    /\ [][NoAbort]_vars

\* C20 witness: in main_01 one servo has completed its sweep while the
\* poller has run and another servo is still in its sweep
C20_Witness ==
    /\ prog = "main_01" /\ cpc = "gather" /\ ppc = "wait_ready"
    /\ \E s \in Servos : Completed(s)
    /\ \E s \in Servos : InSweep(s) /\ task[s].x > X_END \div 2

\* C20, servos_as_ns: a sweep of move_linear / move_coords ends with the
\* target state committed and the output zeroed
C20_NsRunToCompletion ==
    \A s \in NsPins :
        (task[s].pc \in {"step", "settle"})
            ~> (/\ task[s].pc = "done"
                /\ servos[s].state = task[s].demand_state
                /\ servos[s].duty = 0)

\* the configuration has an entry that the claim calls a ConfigError: the
\* routing table names a servo that is not configured, or a configured
\* position is outside [DEGREES_MIN, DEGREES_MAX]
InvalidConfig ==
    \/ \E p \in Switches : ~(switch_servos[p] \subseteq DOMAIN servos)
    \/ \E s \in DOMAIN servos :
          \E deg \in {servos[s].off_deg, servos[s].on_deg} :
             deg < DEGREES_MIN \/ deg > DEGREES_MAX

\* C21 as stated: a configuration with a ConfigError is fatal when the
\* system objects are constructed: no update and no move is ever executed
\* with it.
C21_ConfigError ==
    (prog \in Programs /\ InvalidConfig) =>
        \A s \in Servos : task[s].op \notin {"move_linear", "sync_move"}

\* C21, what the constructor does instead: a configured position outside
\* the range is moved to the nearest limit (pw_in_range)
C21_ConfigClamped ==
    prog \in Programs =>
        \A s \in Servos :
            /\ servos[s].off_ns = pw_in_range(degrees_to_ns(servos[s].off_deg))
            /\ servos[s].on_ns = pw_in_range(degrees_to_ns(servos[s].on_deg))

\* the task on s runs move_linear (uasyncio or synchronous)
Moving(s) == task[s].op \in {"move_linear", "sync_move"}

\* the configured pulse-width of the state the move on s is to reach
Target(s) == end_pw(servos[s], task[s].demand_state)

\* this step makes a duty_ns() call on s
Writes(s) == servos'[s].writes = servos[s].writes + 1

\* the order of the writes and of the state update in one step
CommitOrder ==
    \A s \in Servos :
        /\ (/\ task[s].pc \in {"step", "sync_step"}
            /\ task'[s].pc \in {"set_sleep", "sync_settle"})
              => /\ task[s].x = X_END
                 /\ Writes(s)
                 /\ servos'[s].duty = Target(s)
        /\ (Moving(s) /\ servos'[s].state # servos[s].state)
              => /\ task[s].x = X_END
                 /\ servos'[s].state = task[s].demand_state
                 /\ (servos[s].duty = Target(s)
                        \/ servos'[s].duty = Target(s))
        /\ (Moving(s) /\ servos'[s].duty = 0 /\ Writes(s))
              => /\ servos'[s].state = task[s].demand_state
                 /\ task'[s].pc = "done"
        /\ (Moving(s) /\ task[s].pc = "done" /\ task'[s].pc = "done")
              => (servos'[s] = servos[s])

\* C22: commit order of a completed move.  The exact configured target
\* pulse-width is written after the last trajectory step; the state is
\* updated to the target only once that pulse-width has been written; zero
\* duty is written only with the state updated, and it is the last write
\* of the move.
C22_CommitOrder == [][(prog \in Programs) => CommitOrder]_vars

\* C22 witness: a move has written the exact target pulse-width, which is
\* not the last trajectory value, and waits in set_on/set_off with the
\* state not yet updated
C22_Witness ==
    \E s \in Servos :
        /\ prog = "main_01" /\ task[s].op = "move_linear"
        /\ task[s].pc = "set_sleep" /\ task[s].x = X_END
        /\ servos[s].duty = end_pw(servos[s], task[s].demand_state)
        /\ servos[s].duty # end_pw(servos[s], servos[s].state)
                               + x_steps * task[s].pw_inc
        /\ servos[s].state # task[s].demand_state

\* C23 as stated: a move that performed a sweep returns the pair
\* (channel id, committed state): the id is the servo's pin and the state
\* is the demanded target, which is the servo's state.
C23_ResultPair ==
    prog \in Programs =>
        \A s \in Servos :
            Swept(s) => /\ task[s].ret_pin = s
                        /\ task[s].ret = task[s].demand_state
                        /\ task[s].ret = servos[s].state

\* C23, the part that holds in servos_as_p / servos: the value returned
\* after a sweep is the committed state, which is the demanded target
C23_StateReturned ==
    prog \in Programs =>
        \A s \in Servos :
            Swept(s) => /\ task[s].ret = task[s].demand_state
                        /\ task[s].ret = servos[s].state

\* C23 as stated, for as_servo.move_linear (as_sw_servos, as_http_servos):
\* the result is (self.pin, self.saved_state)
C23_AsResultPair ==
    prog \in AsPrograms =>
        \A s \in Servos :
            (task[s].pc = "done" /\ task[s].x = steps)
                => /\ task[s].ret_pin = servos[s].pin
                   /\ task[s].ret = task[s].demand_state
                   /\ task[s].ret = servos[s].saved_state

\* a step in which the move on s computes a new pulse-width (self.pw) that
\* is outside [PW_MIN, PW_MAX]
OutOfRangeStep(s) ==
    /\ servos'[s].pw # servos[s].pw
    /\ servos'[s].pw < PW_MIN \/ servos'[s].pw > PW_MAX

\* the nearest limit is written for the step, and the move goes on
ClampedStep(s) ==
    /\ servos'[s].writes > servos[s].writes
    /\ servos'[s].duty = pw_in_range(servos'[s].pw)
    /\ task'[s].pc \in {"step", "sync_step"}

\* C24 as stated: RangeError recovery.  Whenever a move or a direct set
\* computes a pulse-width outside [PW_MIN, PW_MAX], the nearest limit is
\* written to the hardware for that step and the move continues.
C24_RangeRecovery ==
    [][(prog \in Programs)
          => \A s \in Servos : OutOfRangeStep(s) => ClampedStep(s)]_vars

\* C24, what move_servo does instead: the out-of-range value is not
\* written at all, the output keeps the value of the step before
C24_WriteSkipped ==
    [][(prog \in Programs)
          => \A s \in Servos :
                OutOfRangeStep(s) => /\ servos'[s].writes = servos[s].writes
                                     /\ servos'[s].duty = servos[s].duty]_vars

\* every waypoint of the table has its time fraction in [0, 100] and its
\* position fraction in [0, y_max]
Within(coords, y_max) ==
    \A i \in DOMAIN coords :
        /\ 0 <= coords[i][1] /\ coords[i][1] <= 100
        /\ 0 <= coords[i][2] /\ coords[i][2] <= y_max

TrajectoryWrites(s) == servos[s].writes - 2

\* C26 as stated: step count.  For every built-in profile and for both
\* step settings one call of move_coords writes exactly x_steps trajectory
\* values, each followed by one pause of step_pause_ms, before the final
\* commit.
C26_StepCount ==
    prog = "servos_as_ns" =>
        \A s \in NsPins :
            (task[s].pc = "settle" /\ task[s].op = "move_coords")
                => TrajectoryWrites(s) = servos[s].x_steps

\* C26, the part that holds: with 100 steps (x_inc = 1) every profile gives
\* exactly x_steps values, and so does a single segment with 50 steps; with
\* 50 steps (x_inc = 2) every segment of odd length takes half a step more
C26_StepCountOdd ==
    prog = "servos_as_ns" =>
        \A s \in NsPins :
            task[s].pc = "settle" =>
                LET coords == segments(servos[s], task[s].op)
                    odd == {i \in DOMAIN coords :
                              (coords[i][1] - seg_origin(coords, i)[1]) % 2 = 1}
                IN 2 * TrajectoryWrites(s)
                      = 2 * servos[s].x_steps
                        + (IF ns_x_inc(servos[s]) = 2 THEN Cardinality(odd)
                           ELSE 0)

\* the table has a segment whose two end points have the same time fraction
ZeroLength(coords) ==
    \E i \in DOMAIN coords : coords[i][1] = seg_origin(coords, i)[1]

\* C27 as stated: zero-length guard.  With a waypoint table that has a
\* segment of zero length in time, move_coords raises no error.
C27_ZeroLengthSkipped ==
    prog = "servos_as_ns" =>
        \A s \in NsPins :
            (task[s].op = "move_coords"
               /\ ZeroLength(segments(servos[s], "move_coords")))
                  => task[s].pc # "raised"

\* C27, what the code does instead: the move over such a table writes
\* the steps of the segments before the zero-length one and no more
C27_ZeroLengthStops ==
    prog = "servos_as_ns" =>
        \A s \in NsPins :
            (task[s].op = "move_coords" /\ task[s].pc = "step"
               /\ ZeroLength(segments(servos[s], "move_coords")))
                  => /\ task[s].seg < 2
                     /\ servos[s].state # task[s].demand_state

\* the move on s writes a new pulse-width in this step
PwStep(s) ==
    /\ Moving(s) /\ servos[s].pw # None
    /\ servos'[s].pw # servos[s].pw
    /\ servos'[s].duty = servos'[s].pw

\* the pulse-width the move on s started from: that of the committed state
StartPw(s) == end_pw(servos[s], servos[s].state)

\* the new pulse-width is not on the wrong side of the one before
Monotone(s) ==
    /\ Target(s) > StartPw(s) => servos'[s].pw >= servos[s].pw
    /\ Target(s) < StartPw(s) => servos'[s].pw <= servos[s].pw

\* C28 as stated: linear motion is monotone.  The pulse-widths written in
\* one linear move (activation value, step values, committed target) are
\* non-decreasing when the target is above the start and non-increasing
\* when it is below, for every configured off/on pair.
C28_LinearMonotone ==
    [][(prog \in Programs)
          => \A s \in Servos : PwStep(s) => Monotone(s)]_vars

\* C28, the part that holds: the steps of the loop are monotone, and so is
\* the commit of a rising move; the commit of a falling move steps back by
\* less than x_steps ns
C28_StepsMonotone ==
    [][(prog \in Programs)
          => \A s \in Servos :
                PwStep(s) =>
                    \/ Monotone(s)
                    \/ /\ servos'[s].pw = Target(s)
                       /\ Target(s) < StartPw(s)
                       /\ servos'[s].pw - servos[s].pw < x_steps]_vars

\* the keys that are the switch ids of the servers
Recognised(k) == k \in {key_of(i) : i \in VSwitches}

\* a valid /data request that also carries a key that is no switch id:
\* every parameter is key=value, every recognised key has the value 0 or 1,
\* the form identifier (HttpServer) is the server's
ValidWithUnknown(server, req) ==
    /\ req.path = "data" /\ req.query
    /\ \A i \in DOMAIN req.params :
          /\ req.params[i].eq
          /\ Recognised(req.params[i].k)
                => int_value(req.params[i].v) \in {0, 1}
          /\ req.params[i].k = "_id"
                => server = "http_as" /\ req.params[i].v = form_id
    /\ \E i \in DOMAIN req.params : Recognised(req.params[i].k)
    /\ \E i \in DOMAIN req.params : req.params[i].k = "V9"
    /\ server = "http_as"
          => \E i \in DOMAIN req.params : req.params[i].k = "_id"

\* the switch states after the recognised keys of req have been applied
\* (the last value given for a key stands)
Applied(states, req) ==
    [i \in DOMAIN states |->
        LET given == {j \in DOMAIN req.params : req.params[j].k = key_of(i)}
        IN IF given = {} THEN states[i]
           ELSE int_value(req.params[CHOOSE j \in given :
                                        \A h \in given : h <= j].v)]

\* C29 as stated: a valid /data request that also carries keys that are
\* not switch ids applies the recognised keys, ignores the others without
\* an error, changes no other switch state and raises the data event.
C29_UnknownKeysIgnored ==
    [][(ServeStep /\ ValidWithUnknown(prog, request_line'))
          => /\ switch_states' = Applied(switch_states, request_line')
             /\ ev_input']_vars

\* C29 as stated, for http_as.HttpServer alone
C29_HttpServerIgnores ==
    [][(ServeStep /\ prog = "http_as"
          /\ ValidWithUnknown(prog, request_line'))
          => /\ switch_states' = Applied(switch_states, request_line')
             /\ ev_input']_vars

\* C30: fixed key set.  After any sequence of HTTP requests the keys of
\* the switch-state mapping are those it was constructed with; only the
\* values change.
C30_FixedKeySet ==
    prog \in HttpPrograms => DOMAIN switch_states = VSwitches

\* C30 witness: the server of http_as has served a request with the key
\* V9, which is no switch, together with V0=1, and has set V0
C30_Witness ==
    /\ prog = "http_as" /\ requests = 1
    /\ ValidWithUnknown(prog, request_line)
    /\ switch_states[0] = 1 /\ ev_input

\* C30 for the hardware scans of SwitchGroup.poll_switches and main_00:
\* every scan gives a dictionary with the keys of self.switches
C30_ScanKeys ==
    prog \in Programs =>
        /\ DOMAIN switch_states = Switches
        /\ DOMAIN previous_states = Switches

\* every virtual switch state is 0 or 1
Boolean(states) == \A i \in DOMAIN states : states[i] \in {0, 1}

\* C31 as stated: after any sequence of HTTP requests every virtual switch
\* state is 0 or 1; a request that carries another integer for a switch id
\* does not store that value.
C31_BooleanValues == prog \in HttpPrograms => Boolean(switch_states)

\* C31, the part that holds: a request all of whose switch values are 0, 1
\* or no integer leaves switch states that are 0 or 1 so
C31_BooleanRequests ==
    [][(/\ ServeStep
        /\ Boolean(switch_states)
        /\ \A i \in DOMAIN request_line'.params :
              int_value(request_line'.params[i].v) \in {0, 1, NotInt})
          => Boolean(switch_states')]_vars

\* main_01 with HwSwitchGroup: the consumer has just started a cycle (its
\* moves are launched and none has run)
HwCycleStart ==
    /\ prog = "main_01_p" /\ cpc = "gather"
    /\ \A s \in Routed : task[s].pc = "launched"

\* the switches have settled and the consumer has been handed a snapshot
\* that was captured before they did
StaleDelivery ==
    /\ HwCycleStart /\ changes = MaxChanges
    /\ read_states # scan_switches

\* the consumer starts a cycle on what the switches show
ReadsSettled == HwCycleStart /\ read_states = scan_switches

\* C32 as stated, over the executions it describes: once the consumer has
\* been handed a snapshot that HwSwitchGroup.poll_switches captured before
\* the switches settled at S, the consumer never performs a cycle in which
\* it reads S.
C32_SnapshotDropped == [](StaleDelivery => []~ReadsSettled)

\* C32 amended: HwSwitchGroup.poll_switches can hand the consumer a stale
\* snapshot, but it drops no update.  In every fair execution in which
\* the switches settle at S the consumer eventually reads S in a cycle and
\* every routed servo eventually has the state S demands, and stays so.
C32_HwNoLostUpdate ==
    (prog = "main_01_p" /\ <>[][UNCHANGED pin_value]_vars)
        => <>[](read_states = scan_switches /\ ServosFollow)

\* C32 witness: after the last change of the switches the consumer starts
\* a cycle on a snapshot that was captured before that change
C32_Witness == StaleDelivery /\ switch_states = read_states

\* HwSwitchGroup.poll_switches completes a pass of its loop: it comes
\* out of the sleep, or out of the wait for the consumer, and is back at
\* the sleep
HwPassStep ==
    /\ ppc \in {"sleep", "woken"} /\ (ppc = "sleep" => ptimer = 0)
    /\ ppc' = "sleep" /\ ptimer' = poll_interval

\* the data event is raised
RaiseStep == ~ev_input /\ ev_input'

\* a move that is entered with the servo's committed state as its demand
SameStateDemand(s) ==
    /\ task[s].pc = "launched" /\ task[s].op = "move_linear"
    /\ task[s].demand_state = servos[s].state

MoveLaunch(s) ==
    /\ task'[s].pc = "launched" /\ task[s].pc # "launched"
    /\ task'[s].op \in {"move_linear", "as_move"}

\* no coroutine is in progress on servo s
NoneInProgress(s) == task[s].pc \in {"idle", "done"}

\* the move made last on servo s, if the loop still holds it, has committed
\* its demand, and the output is at zero duty (or not yet enabled)
MoveSettled(s) ==
    /\ servos[s].duty \in {0, None}
    /\ task[s].pc = "done" =>
          task[s].demand_state =
             IF prog \in AsPrograms THEN servos[s].saved_state
             ELSE servos[s].state

\* the loops C34 is about
LoopPrograms == {"main_01", "main_01_p"} \cup AsPrograms

\* C34 as stated: at no time are two moves in progress on the same servo;
\* a new move on a channel starts only after the previous move on that
\* channel has committed its state and zeroed its output, in the main_01
\* loop and in the as_sw_servos / as_http_servos main loops.
C34_NoOverlap ==
    [][(prog \in LoopPrograms) =>
          \A s \in Servos :
             MoveLaunch(s) => NoneInProgress(s) /\ MoveSettled(s)]_vars

\* C34, the part that holds: a move is started on a servo only when no
\* coroutine is in progress on it, and with the hardware switches as the
\* source only when the move before it has committed its state and zeroed
\* the output
C34_MovesSerialised ==
    [][(prog \in LoopPrograms) =>
          \A s \in Servos :
             MoveLaunch(s) =>
                /\ NoneInProgress(s)
                /\ prog # "as_http_servos" => MoveSettled(s)]_vars

\* producer and consumer are both suspended on the other's event and
\* both events are clear
HandshakeDeadlock ==
    /\ ppc = "wait_ready" /\ cpc = "wait_data"
    /\ ~ev_consumer_ready /\ ~ev_input

\* C35: the handshake never deadlocks.  With SwitchGroup.poll_switches
\* and with HwSwitchGroup.poll_switches against the consumer loop, no
\* reachable state has the producer suspended on ev_consumer_ready and the
\* consumer suspended on the data event while both events are clear.
C35_NoDeadlock ==
    prog \in {"main_01", "main_01_p"} =>
        /\ ~HandshakeDeadlock
        /\ ppc = "wait_ready" => ~ev_consumer_ready /\ cpc # "wait_data"
        /\ cpc = "wait_data" => ~ev_input /\ ev_consumer_ready

\* C35 witness: the producer of switches_as_p.py is suspended on
\* ev_consumer_ready while the consumer is busy with a move
C35_Witness ==
    /\ prog = "main_01_p" /\ ppc = "wait_ready" /\ cpc = "gather"
    /\ ~ev_consumer_ready /\ ~ev_input
    /\ \E s \in Routed : task[s].pc = "step"

\* ServoGroup.initialise has returned (main_00: the group is constructed)
InitialiseDone == ppc \notin {"initialise", "init_gather"}

\* no move is in progress on servo s and its logical state is OFF or ON
Quiescent(s) ==
    /\ InitialiseDone
    /\ task[s].pc \in {"idle", "done", "queued"}
    /\ servos[s].state \in {OFF, ON}

\* C36: quiescent invariant.  Whenever no move is in progress on a servo
\* whose logical state is OFF or ON, after initialise and between updates,
\* its committed pulse-width is off_ns in state OFF and on_ns in state ON,
\* and the value written last to its output is zero duty.
C36_Quiescent ==
    prog \in Programs \cup {"main_01_p"} =>
        \A s \in Servos :
            Quiescent(s) =>
                /\ servos[s].pw = IF servos[s].state = OFF
                                  THEN servos[s].off_ns ELSE servos[s].on_ns
                /\ servos[s].duty = 0

\* C36 witness: in an update of the asynchronous group one servo has
\* completed its move to ON and is quiescent at on_ns with zero duty, while
\* a slower servo is still in its sweep
C36_Witness ==
    /\ prog \in {"main_01", "servos_as_p"} /\ InitialiseDone
    /\ \E s \in Servos : /\ task[s].pc = "done" /\ task[s].ret = ON
                         /\ servos[s].state = ON
                         /\ servos[s].pw = servos[s].on_ns
                         /\ servos[s].duty = 0
    /\ \E s \in Servos : task[s].pc = "step"

\* the move launched on servo s with a demand that is neither OFF nor ON
\* runs in this step
BadDemandEntered(s) ==
    /\ task[s].pc = "launched" /\ task'[s].pc # "launched"
    /\ task[s].op \in {"move_linear", "move_coords", "as_move"}
    /\ task[s].demand_state \notin {OFF, ON}

\* the servo is as it was (state, pulse-width, output, number of writes)
\* and the move has returned
NoEffect(s) == servos'[s] = servos[s] /\ task'[s].pc = "done"

\* C37 as stated: a move called with a demand value other than OFF (0) or
\* ON (1) changes neither the servo's logical state nor its committed
\* pulse-width, performs no hardware write (it does not leave the PWM
\* output activated) and returns without suspending.
C37_BadDemandNoEffect ==
    [][\A s \in DOMAIN task : BadDemandEntered(s) => NoEffect(s)]_vars

\* C37, the part that holds: so it is for move_linear of servos_as_p.py
\* and for move_linear and move_coords of servos_as_ns.py; as_servo's
\* move_linear returns without suspending and keeps saved_state
C37_BadDemandReturns ==
    [][\A s \in DOMAIN task :
          BadDemandEntered(s) =>
             IF prog \in AsPrograms
             THEN /\ task'[s].pc = "done"
                  /\ servos'[s].saved_state = servos[s].saved_state
             ELSE NoEffect(s)]_vars

\* C38: in http_as, serve_client applies a request to the virtual switch
\* states only while ev_main_ready is set.  The main loop never suspends
\* between clearing ev_main_ready and setting it again, so the event is set
\* whenever a client task runs, also when several requests are served
\* before the main loop runs again, and no switch state changes while it
\* is clear.
C38_AppliedWhileReady ==
    [][(prog = "http_as") =>
          /\ ev_consumer_ready /\ ev_consumer_ready'
          /\ switch_states' # switch_states => ServeStep]_vars

\* C38 witness: two requests have been applied one after the other before
\* the main loop has run: the first set V0, the second set V1, the data
\* event is still set and ev_main_ready has been set all along
C38_Witness ==
    /\ prog = "http_as" /\ requests = 2 /\ ev_input /\ ev_consumer_ready
    /\ read_states = AsNoSwitches
    /\ switch_states[0] = 1 /\ switch_states[1] = 1
    /\ \A i \in DOMAIN request_line.params : request_line.params[i].k # "V0"

\* every routed servo's saved_state is its switch's state
SavedFollows ==
    \A s \in Servos : servos[s].saved_state = switch_states[AsSwitchOf(s)]

\* C39 as stated: in the as_http_servos / as_sw_servos main loop an input
\* event that arrives while the loop is suspended in gather is not lost:
\* after the gather the loop re-reads switch_states without a further
\* event, so that once the inputs stop changing every routed servo's
\* saved_state eventually equals its switch's state.
C39_EventNotLost ==
    (prog \in AsPrograms /\ <>[][UNCHANGED <<pin_value, switch_states>>]_vars)
        => <>[]SavedFollows

\* C39, the part that holds: with the hardware switches as the source,
\* and with the HTTP source if the switch states are left 0 or 1 and as
\* the completely applied requests made them, every routed servo's
\* saved_state eventually equals its switch's state
C39_AppliedNotLost ==
    prog \in AsPrograms =>
        <>[](\/ prog = "as_http_servos"
                /\ (switch_states # applied \/ ~Boolean(switch_states))
             \/ SavedFollows)

\* C39, the step itself: when the gather returns with ev_input set, the
\* loop clears the event and goes through switch_states again at once
C39_RereadAfterGather ==
    [][(prog \in AsPrograms /\ cpc = "as_gather" /\ cpc' # "as_gather"
          /\ ev_input)
          => ~ev_input' /\ read_states' = switch_states]_vars

====
